---- MODULE Spec2Model ----
(***************************************************************************)
(* WhereSpace retrieval pipeline: the ingestion orchestrator and the       *)
(* vector store gateway (src/WhereSpace.py, src/services/                  *)
(* database_service.py), the embedding client (src/WhereSpace.py,          *)
(* src/batch_embeddings.py) and the query cache                            *)
(* (src/optimized_rag_query.py).                                           *)
(***************************************************************************)
EXTENDS Integers, Sequences, FiniteSets, TLC

(***************************************************************************)
(* Bounds of the model and constants of the program.                       *)
(***************************************************************************)
MaxDocs == 5
MaxChunks == 2
MaxFaults == 2
MaxSvcCalls == 1
OldMtime == 2
MaxTexts == 3
MaxBatchSize == 2
MaxWorkers == 2
NThreads == 2
MaxCalls == 2
MaxCacheSize == 2
MaxTime == 2
MaxSeqCalls == 4

DocLimit == 50
CommitEvery == 5
max_retries == 3
OLLAMA_EMBED_DIMENSION == 768

VARIABLES
    \* ---- the store, as PostgreSQL shows it
    committed,      \* rows every other connection sees
    work,           \* rows the writing connection sees (committed + its open transaction)
    txFailed,       \* the open transaction is in the aborted state
    otherDocs,      \* stored documents whose paths are not in the input list
    \* ---- the files and the environment of a run
    documents,      \* input list of ingest_documents_to_pgvector (paths)
    fileMtime,      \* st_mtime of every path
    batchAvail,     \* BATCH_EMBEDDINGS_AVAILABLE
    faults,         \* failures injected so far
    \* ---- ingest_documents_to_pgvector
    pc, i, documents_to_process, existing_count,
    ingested_count, failed_count, skipped_count,
    modified_time, chunks, embeddings, k, returned,
    \* ---- DatabaseService.ingest_document
    svc, svcCalls, checkedOut,
    \* ---- history
    stored0,        \* the rows committed before anything ran
    upserts,        \* the row set of every upsert that was started
    counted,        \* list positions the run counted as ingested
    hist,           \* per list position: what the run did for the document
    \* ---- BatchEmbeddingGenerator.generate_embeddings
    texts,          \* the input list
    nonstr,         \* positions of texts whose element is not a string
    batch_size, max_workers,
    gpc,            \* position of the calling thread in generate_embeddings
    future,         \* per batch_id: state of its future and what the worker has so far
    results, completed,
    collected,      \* the batch_ids in the order as_completed handed them over
    gen_stats,
    \* ---- generate_embedding / BatchEmbeddingGenerator._generate_single
    impl,           \* which of the two functions is running
    requests_available,
    epc, attempt, embedding,
    requests,       \* history: the answer to every request sent, in order
    sleeps,         \* history: the backoff waits, in units of base_delay
    \* ---- QueryCache
    cache,          \* the dict, as the sequence of its entries in insertion order
    stats, lock, max_size, ttl,
    now,            \* the last value time.time() gave
    th,             \* per thread: the call it is in and its position
    calls,          \* calls started so far
    order,          \* history: the completed calls, in the order they released the lock
    gets_done,      \* history: completed get calls
    contended,      \* history: some call had to wait for the lock
    last,           \* history: the latest call of a thread that runs alone
    \* ---- the connection pools and the operations that use them
    pool_up,        \* DatabasePool._pool is a pool (not None)
    store_up,       \* PostgreSQL answers
    pool_max,       \* maxconn of both pools
    in_use,         \* per pool: connections checked out
    call,           \* per thread: the operation it is in, and its connection
    ops,            \* operations started so far
    exhausted,      \* history: a getconn found the pool exhausted
    ended,          \* history: how the latest operation ended
    \* ---- chunk_text
    text,           \* the text to chunk, a sequence of characters
    chunk_size,
    overlap,
    chunked,        \* what chunk_text did: not called, returned chunks, raised
    \* ---- deduplicate_chunks
    candidates,     \* the chunks given to deduplicate_chunks
    deduped,        \* what it returned
    \* ---- optimize_prompt
    ranked,         \* the chunks given to optimize_prompt, best first
    max_tokens,
    prompt,         \* what it put into the prompt
    \* ---- retrieve_and_rank over the cache, and the prompt built from its chunks
    table,          \* the rows the store returns for the query, most similar first
    ctx_tokens,     \* max_tokens of the prompts
    objs,           \* the chunk dicts built from the rows, by row number
    cached_list,    \* the list object the cache entry holds: row numbers in order
    stored_as,      \* history: that list and its dicts when set stored them
    unique_list,    \* the list retrieve_and_rank returned
    got,            \* history: the list and dicts the latest hit handed out
    lookups,        \* calls of retrieve_and_rank so far
    ppc,            \* idle, or ranked: the caller holds unique_list
    \* ---- get_session (batch_embeddings.py)
    session,        \* the global _session: 0 is None, n is the n-th Session object
    created,        \* Session objects created so far
    caller,         \* per thread: where it is in get_session
    handed,         \* history: the object each call of get_session returned, in order
    gets,           \* calls of get_session so far
    \* ---- the requests of _generate_single inside a batch (batch_embeddings.py)
    attempt_of,     \* per batch: the attempt of the retry loop for the text in hand
    posted,         \* history: per input position, the requests posted for it
    \* ---- the current LLM model and its config file (WhereSpaceChat.py)
    current_model,  \* the global _current_model
    config_file,    \* MODEL_CONFIG_FILE: "missing", "corrupt" or the current_model it holds
    answer,         \* history: what the latest switch answered
    last_success,   \* history: the model of the latest switch that reported success
    switches        \* switches so far

storeVars == <<committed, work, txFailed, otherDocs>>
envVars == <<documents, fileMtime, batchAvail>>
runVars == <<pc, i, documents_to_process, existing_count, ingested_count,
             failed_count, skipped_count, modified_time, chunks, embeddings,
             k, returned>>
svcVars == <<svc, svcCalls, checkedOut>>
histVars == <<stored0, upserts, counted, hist>>
ingestVars == <<storeVars, envVars, faults, runVars, svcVars, histVars>>

batchVars == <<texts, nonstr, batch_size, max_workers, gpc, future, results,
               completed, collected, gen_stats>>
embedVars == <<impl, requests_available, epc, attempt, embedding, requests, sleeps>>
cacheVars == <<cache, stats, lock, max_size, ttl, now, th, calls, order,
               gets_done, contended>>
aloneVars == <<last>>
poolVars == <<pool_up, store_up, pool_max, in_use, call, ops, exhausted, ended>>
chunkVars == <<text, chunk_size, overlap, chunked>>
dedupVars == <<candidates, deduped>>
promptVars == <<ranked, max_tokens, prompt>>
pipeVars == <<table, ctx_tokens, objs, cached_list, stored_as, unique_list, got, lookups,
              ppc>>
sessionVars == <<session, created, caller, handed, gets>>
postingVars == <<attempt_of, posted>>
modelVars == <<current_model, config_file, answer, last_success, switches>>

vars == <<ingestVars, batchVars, embedVars, cacheVars, aloneVars, poolVars, chunkVars,
          dedupVars, promptVars, pipeVars, sessionVars, postingVars, modelVars>>

\* What the actions of one component leave alone.
notIngest == <<batchVars, embedVars, cacheVars, aloneVars, poolVars, chunkVars,
               dedupVars, promptVars, pipeVars, sessionVars, postingVars, modelVars>>
notBatch == <<ingestVars, embedVars, cacheVars, aloneVars, poolVars, chunkVars,
              dedupVars, promptVars, pipeVars, sessionVars, postingVars, modelVars>>
notEmbed == <<ingestVars, batchVars, cacheVars, aloneVars, poolVars, chunkVars,
              dedupVars, promptVars, pipeVars, sessionVars, postingVars, modelVars>>
notCache == <<ingestVars, batchVars, embedVars, aloneVars, poolVars, chunkVars,
              dedupVars, promptVars, pipeVars, sessionVars, postingVars, modelVars>>
notPool == <<ingestVars, batchVars, embedVars, cacheVars, aloneVars, chunkVars,
             dedupVars, promptVars, pipeVars, sessionVars, postingVars, modelVars>>
notChunk == <<ingestVars, batchVars, embedVars, cacheVars, aloneVars, poolVars,
              dedupVars, promptVars, pipeVars, sessionVars, postingVars, modelVars>>
notDedup == <<ingestVars, batchVars, embedVars, cacheVars, aloneVars, poolVars,
              chunkVars, promptVars, pipeVars, sessionVars, postingVars, modelVars>>
notPrompt == <<ingestVars, batchVars, embedVars, cacheVars, aloneVars, poolVars,
               chunkVars, dedupVars, pipeVars, sessionVars, postingVars, modelVars>>
notPipe == <<ingestVars, batchVars, embedVars, cacheVars, aloneVars, poolVars, chunkVars,
             dedupVars, promptVars, sessionVars, postingVars, modelVars>>
notSession == <<ingestVars, batchVars, embedVars, cacheVars, aloneVars, poolVars,
                chunkVars, dedupVars, promptVars, pipeVars, postingVars, modelVars>>
notPosting == <<ingestVars, batchVars, embedVars, cacheVars, aloneVars, poolVars,
                chunkVars, dedupVars, promptVars, pipeVars, sessionVars, modelVars>>
notBatchPosting == <<ingestVars, embedVars, cacheVars, aloneVars, poolVars, chunkVars,
                     dedupVars, promptVars, pipeVars, sessionVars, modelVars>>
notModel == <<ingestVars, batchVars, embedVars, cacheVars, aloneVars, poolVars,
              chunkVars, dedupVars, promptVars, pipeVars, sessionVars, postingVars>>
notCacheAlone == <<ingestVars, batchVars, embedVars, poolVars, chunkVars, dedupVars,
                   promptVars, pipeVars, sessionVars, postingVars, modelVars>>

----------------------------------------------------------------------------
(***************************************************************************)
(* Values.                                                                 *)
(***************************************************************************)
Paths == 1..MaxDocs
Stride == MaxChunks + 2
\* The text of chunk j of the content read for list position d (d = 0: the
\* content stored before the run; d > MaxDocs: content handed to the service).
ChunkId(d, j) == d * Stride + j
DocOf(c) == c \div Stride
\* How many chunks chunk_text makes of the file at path p: the files differ, so
\* that single-chunk and multi-chunk documents both occur in a run.
NChunks(p) == 1 + (p % MaxChunks)
\* What the embedding endpoint answers for a text, and Python's None.
VecFor(c) == [of |-> c]
None == [of |-> 0]

Min(a, b) == IF a <= b THEN a ELSE b

RowsOf(rows, p) == {r \in rows : r.file_path = p}
CountDistinct(rows) == Cardinality({r.file_path : r \in rows})

\* A faulty variant, to test C4's formula: only the row of index 0 is deleted.
DeleteFirstRow(rows, p) == {r \in rows : r.file_path # p \/ r.chunk_index # 0}
\* DELETE FROM documents WHERE file_path = %s
DeleteRows(rows, p) == {r \in rows : r.file_path # p}

\* The row of one INSERT: enumerate(zip(chunks, embeddings)), 0-based index.
Row(p, cs, es, n, mt) ==
    [file_path |-> p, chunk_index |-> n - 1, chunk_content |-> cs[n],
     embedding |-> es[n], modified_time |-> mt]

\* UNIQUE(file_path, chunk_index)
Conflicts(rows, row) ==
    \E r \in rows : r.file_path = row.file_path /\ r.chunk_index = row.chunk_index

\* len(zip(chunks, embeddings))
ZipLen(cs, es) == Min(Len(cs), Len(es))
UpsertRows(p, cs, es, mt) == {Row(p, cs, es, n, mt) : n \in 1..ZipLen(cs, es)}

\* valid_pairs = [(c, e) for c, e in zip(chunks, embeddings) if e is not None]
ValidIdx(cs, es) == {n \in 1..ZipLen(cs, es) : es[n] # None}
RECURSIVE Pick(_, _, _)
Pick(s, keep, n) ==
    IF n > Len(s) THEN <<>>
    ELSE (IF n \in keep THEN <<s[n]>> ELSE <<>>) \o Pick(s, keep, n + 1)
ValidChunks(cs, es) == Pick(cs, ValidIdx(cs, es), 1)
\* A faulty variant, to test C7's formula: the embeddings are not filtered.
ValidEmbeddingsUnfiltered(cs, es) == es
ValidEmbeddings(cs, es) == Pick(es, ValidIdx(cs, es), 1)

\* is_document_ingested, when the SELECT answers: LIMIT 1 row of the path
StoredMtimes(rows, p) == {r.modified_time : r \in RowsOf(rows, p)}
IsIngested(rows, p, mt) ==
    \E m \in StoredMtimes(rows, p) : m = mt

\* conn.commit(): PostgreSQL answers COMMIT of an aborted transaction with ROLLBACK
Commit(c, w, failed) == IF failed THEN c ELSE w
\* conn.rollback(), and conn.close() with an open transaction
Rollback(c, w) == c
\* A faulty variant, to test C1's formula: a failed statement is not rolled back.
NoRollback(c, w) == w
\* except-branch of ingest_to_pgvector for a failed statement
RollbackOnError(c, w) == Rollback(c, w)

OldRows(p) ==
    {[file_path |-> p, chunk_index |-> n - 1, chunk_content |-> ChunkId(0, n),
      embedding |-> VecFor(ChunkId(0, n)), modified_time |-> OldMtime]
        : n \in 1..(MaxChunks + 1)}

\* What the store held for a path when the run looked it up.
StoredState(rows, p, mt) ==
    IF StoredMtimes(rows, p) = {} THEN "absent"
    ELSE IF mt \in StoredMtimes(rows, p) THEN "equal" ELSE "differs"

NoHist == [stored |-> "unknown", extracted |-> FALSE, embed_calls |-> 0,
           bad |-> {}, writes |-> 0, verdict |-> "none"]
IdleSvc == [pc |-> "idle", path |-> 0, chunks |-> <<>>, embeddings |-> <<>>,
            mtime |-> 0, k |-> 0, ret |-> "none"]

\* generate_embedding: the returned list, by its length and the request that
\* carried it; None is the absence of a list.
NoEmbedding == [len |-> 0, request |-> 0]

\* QueryCache: the threads that call it and the keys they use.
Threads == 1..NThreads
Keys == 1..(MaxCacheSize + 1)
IdleThread == [pc |-> "idle", op |-> "none", key |-> 0, results |-> 0,
               time |-> 0, count |-> 0]
IdleOp == [kind |-> "none", conn |-> FALSE]
NoEnd == [outcome |-> "none", unreachable |-> FALSE, held |-> FALSE]
NoCall == [op |-> "none", key |-> 0, time |-> 0, ret |-> 0, before |-> <<>>,
           stats |-> [hits |-> 0, misses |-> 0], hit |-> 0]

----------------------------------------------------------------------------
(***************************************************************************)
(* Initial states: a store that holds otherDocs documents outside the      *)
(* input list and, possibly, path 1 as ingested earlier; path 1's file is  *)
(* older than, as old as, or newer than the stored modification time.      *)
(***************************************************************************)
\* The components at rest: nothing was called yet.
QuietIngest ==
    /\ committed = {} /\ work = {} /\ txFailed = FALSE /\ otherDocs = 0
    /\ documents = <<>> /\ fileMtime = [p \in Paths |-> OldMtime]
    /\ batchAvail = TRUE /\ faults = 0
    /\ pc = "idle" /\ i = 0 /\ documents_to_process = <<>>
    /\ existing_count = 0 /\ ingested_count = 0 /\ failed_count = 0
    /\ skipped_count = 0 /\ modified_time = 0 /\ chunks = <<>>
    /\ embeddings = <<>> /\ k = 0 /\ returned = -1
    /\ svc = IdleSvc /\ svcCalls = 0 /\ checkedOut = 0
    /\ stored0 = {} /\ upserts = {} /\ counted = {}
    /\ hist = [n \in 1..MaxDocs |-> NoHist]

QuietBatch ==
    /\ texts = <<>> /\ nonstr = {} /\ batch_size = 1 /\ max_workers = 1
    /\ gpc = "idle" /\ future = <<>> /\ results = <<>>
    /\ completed = 0 /\ collected = <<>>
    /\ gen_stats = [successful |-> 0, failed |-> 0]

QuietEmbed ==
    /\ impl = "generate_embedding" /\ requests_available = TRUE
    /\ epc = "idle" /\ attempt = 0 /\ embedding = NoEmbedding
    /\ requests = <<>> /\ sleeps = <<>>

QuietCache ==
    /\ cache = <<>> /\ stats = [hits |-> 0, misses |-> 0] /\ lock = 0
    /\ max_size = 1 /\ ttl = 1 /\ now = 0
    /\ th = [t \in Threads |-> IdleThread]
    /\ calls = 0 /\ order = <<>> /\ gets_done = 0 /\ contended = FALSE
    /\ last = NoCall

NotChunked == [state |-> "none", chunks |-> <<>>]
QuietChunk ==
    /\ text = <<>> /\ chunk_size = 1 /\ overlap = 0 /\ chunked = NotChunked

NotDeduped == [state |-> "none", chunks |-> <<>>]
QuietDedup == candidates = <<>> /\ deduped = NotDeduped

QuietPrompt ==
    /\ ranked = <<>> /\ max_tokens = 0 /\ prompt = [state |-> "none", selected |-> <<>>]

NoList == [state |-> "none", list |-> <<>>, dicts |-> <<>>]
QuietPipe ==
    /\ table = <<>> /\ ctx_tokens = 0 /\ objs = <<>> /\ cached_list = <<>>
    /\ stored_as = NoList /\ unique_list = <<>> /\ got = NoList
    /\ lookups = 0 /\ ppc = "idle"

QuietSession ==
    /\ session = 0 /\ created = 0 /\ caller = [t \in Threads |-> "idle"]
    /\ handed = <<>> /\ gets = 0

QuietPosting ==
    /\ attempt_of = <<>> /\ posted = <<>>

QuietModel ==
    /\ current_model = "llama3.1" /\ config_file = "missing"
    /\ answer = [by |-> "none", success |-> FALSE, model |-> "none"]
    /\ last_success = "none" /\ switches = 0

QuietPool ==
    /\ pool_up = TRUE /\ store_up = TRUE /\ pool_max = 1
    /\ in_use = [p \in {"service", "pooled"} |-> 0]
    /\ call = [t \in Threads |-> IdleOp]
    /\ ops = 0 /\ exhausted = FALSE /\ ended = NoEnd

InitIngest ==
    /\ QuietBatch /\ QuietEmbed /\ QuietCache /\ QuietPool /\ QuietChunk /\ QuietDedup /\ QuietPrompt /\ QuietPipe /\ QuietSession /\ QuietPosting /\ QuietModel
    /\ otherDocs \in {0, DocLimit - 2, DocLimit - 1, DocLimit}
    /\ \E m \in 0..MaxDocs : documents = [n \in 1..m |-> n]
    /\ \E sc \in {"new", "older", "equal", "newer"} :
        /\ committed = IF sc = "new" THEN {} ELSE OldRows(1)
        /\ fileMtime = [p \in Paths |->
                          IF p # 1 THEN OldMtime
                          ELSE CASE sc = "older" -> OldMtime - 1
                                 [] sc = "newer" -> OldMtime + 1
                                 [] OTHER -> OldMtime]
    /\ work = committed
    /\ txFailed = FALSE
    /\ batchAvail \in BOOLEAN
    /\ faults = 0
    /\ pc = "idle"
    /\ i = 0
    /\ documents_to_process = <<>>
    /\ existing_count = 0
    /\ ingested_count = 0
    /\ failed_count = 0
    /\ skipped_count = 0
    /\ modified_time = 0
    /\ chunks = <<>>
    /\ embeddings = <<>>
    /\ k = 0
    /\ returned = -1
    /\ svc = IdleSvc
    /\ svcCalls = 0
    /\ checkedOut = 0
    /\ stored0 = committed
    /\ upserts = {}
    /\ counted = {}
    /\ hist = [n \in 1..MaxDocs |-> NoHist]

----------------------------------------------------------------------------
(***************************************************************************)
(* ingest_documents_to_pgvector (src/WhereSpace.py).  One connection is    *)
(* used for the whole run; psycopg2 opens a transaction with the first     *)
(* statement and keeps it open until commit() or rollback().               *)
(***************************************************************************)
CurPath == documents_to_process[i]

\* Leave the current document: the next loop iteration.
NextDocument == /\ i' = i + 1
                /\ pc' = "loop"
                /\ chunks' = <<>>
                /\ embeddings' = <<>>
                /\ k' = 0

\* Lines 1051-1090: the count of stored documents, the limit and the truncation.
StartRun ==
    /\ pc = "idle"
    /\ svcCalls = 0
    /\ existing_count' = CountDistinct(work) + otherDocs
    /\ IF existing_count' >= DocLimit
       THEN /\ pc' = "limit"
            /\ returned' = 0
            /\ i' = 0
            /\ documents_to_process' = <<>>
       ELSE /\ pc' = "loop"
            /\ returned' = returned
            /\ i' = 1
            /\ documents_to_process' =
                  SubSeq(documents, 1, Min(Len(documents), DocLimit - existing_count'))
    /\ UNCHANGED <<storeVars, envVars, faults, ingested_count, failed_count,
                   skipped_count, modified_time, chunks, embeddings, k,
                   svcVars, histVars>>
    /\ UNCHANGED notIngest

\* Lines 1092-1110: end of the list, the second limit check, and stat().
LoopHead ==
    /\ pc = "loop"
    /\ IF i > Len(documents_to_process) \/ existing_count + ingested_count >= DocLimit
       THEN pc' = "final" /\ modified_time' = modified_time
       ELSE pc' = "exists" /\ modified_time' = fileMtime[CurPath]
    /\ UNCHANGED <<storeVars, envVars, faults, i, documents_to_process,
                   existing_count, ingested_count, failed_count, skipped_count,
                   chunks, embeddings, k, returned, svcVars, histVars>>
    /\ UNCHANGED notIngest

\* Lines 1111-1114: doc_path.stat() raises OSError.
StatFails ==
    /\ pc = "loop"
    /\ i <= Len(documents_to_process)
    /\ existing_count + ingested_count < DocLimit
    /\ faults < MaxFaults
    /\ faults' = faults + 1
    /\ skipped_count' = skipped_count + 1
    /\ hist' = [hist EXCEPT ![i].verdict = "skipped"]
    /\ NextDocument
    /\ UNCHANGED <<storeVars, envVars, documents_to_process, existing_count,
                   ingested_count, failed_count, modified_time, returned,
                   svcVars, stored0, upserts, counted>>
    /\ UNCHANGED notIngest

\* KeyboardInterrupt between two documents: it passes every "except Exception"
\* and the finally-branch closes the connection (lines 1311-1319).
Interrupt ==
    /\ pc = "loop"
    /\ i > 1
    /\ pc' = "interrupted"
    /\ work' = Rollback(committed, work)
    /\ txFailed' = FALSE
    /\ UNCHANGED <<committed, otherDocs, envVars, faults, i, documents_to_process,
                   existing_count, ingested_count, failed_count, skipped_count,
                   modified_time, chunks, embeddings, k, returned, svcVars,
                   histVars>>
    /\ UNCHANGED notIngest

\* Lines 1116-1120 with is_document_ingested (861-895); the SELECT answers.
\* In an aborted transaction every statement fails, so it cannot answer there.
ExistsCheck ==
    /\ pc = "exists"
    /\ ~txFailed
    /\ hist' = [hist EXCEPT
                  ![i].stored = StoredState(work, CurPath, modified_time),
                  ![i].verdict = IF IsIngested(work, CurPath, modified_time)
                                 THEN "skipped" ELSE @]
    /\ IF IsIngested(work, CurPath, modified_time)
       THEN /\ skipped_count' = skipped_count + 1
            /\ NextDocument
       ELSE /\ pc' = "extract"
            /\ UNCHANGED <<skipped_count, i, chunks, embeddings, k>>
    /\ UNCHANGED <<storeVars, envVars, faults, documents_to_process,
                   existing_count, ingested_count, failed_count, modified_time,
                   returned, svcVars, stored0, upserts, counted>>
    /\ UNCHANGED notIngest

\* Lines 893-895: the SELECT raises; the error is swallowed and the answer is
\* False.  The failed statement leaves the transaction aborted.
ExistsCheckFails ==
    /\ pc = "exists"
    /\ txFailed \/ faults < MaxFaults
    /\ faults' = IF txFailed THEN faults ELSE faults + 1
    /\ txFailed' = TRUE
    /\ hist' = [hist EXCEPT
                  ![i].stored = StoredState(work, CurPath, modified_time)]
    /\ pc' = "extract"
    /\ UNCHANGED <<committed, work, otherDocs, envVars, i, documents_to_process,
                   existing_count, ingested_count, failed_count, skipped_count,
                   modified_time, chunks, embeddings, k, returned, svcVars,
                   stored0, upserts, counted>>
    /\ UNCHANGED notIngest

\* Lines 1122-1137: extract_text_from_file and chunk_text.
Extract ==
    /\ pc = "extract"
    /\ chunks' = [j \in 1..NChunks(CurPath) |-> ChunkId(i, j)]
    /\ hist' = [hist EXCEPT ![i].extracted = TRUE]
    /\ pc' = "embed"
    /\ UNCHANGED <<storeVars, envVars, faults, i, documents_to_process,
                   existing_count, ingested_count, failed_count, skipped_count,
                   modified_time, embeddings, k, returned, svcVars, stored0,
                   upserts, counted>>
    /\ UNCHANGED notIngest

\* Lines 1125-1128: no text, or fewer than 50 characters after strip().
ExtractTooShort ==
    /\ pc = "extract"
    /\ faults < MaxFaults
    /\ faults' = faults + 1
    /\ skipped_count' = skipped_count + 1
    /\ hist' = [hist EXCEPT ![i].extracted = TRUE, ![i].verdict = "skipped"]
    /\ NextDocument
    /\ UNCHANGED <<storeVars, envVars, documents_to_process, existing_count,
                   ingested_count, failed_count, modified_time, returned,
                   svcVars, stored0, upserts, counted>>
    /\ UNCHANGED notIngest

\* Lines 1143-1169: generate_embeddings_batch; the positions in bad come back
\* as None, all the others as the vectors of their chunks.
BatchResult(cs, bad) ==
    [n \in 1..Len(cs) |-> IF n \in bad THEN None ELSE VecFor(cs[n])]

EmbedBatch ==
    /\ pc = "embed"
    /\ batchAvail /\ Len(chunks) > 1
    /\ \E bad \in SUBSET (1..Len(chunks)) :
        /\ faults + Cardinality(bad) <= MaxFaults
        /\ faults' = faults + Cardinality(bad)
        /\ LET es == BatchResult(chunks, bad)
               failed_embeddings == Cardinality({n \in 1..Len(es) : es[n] = None})
           IN IF failed_embeddings > 0 /\ failed_embeddings = Len(chunks)
              THEN /\ failed_count' = failed_count + 1
                   /\ hist' = [hist EXCEPT ![i].embed_calls = Len(chunks),
                                           ![i].bad = {chunks[n] : n \in bad},
                                           ![i].verdict = "failed"]
                   /\ NextDocument
              ELSE /\ chunks' = IF failed_embeddings > 0
                                THEN ValidChunks(chunks, es) ELSE chunks
                   /\ embeddings' = IF failed_embeddings > 0
                                    THEN ValidEmbeddings(chunks, es) ELSE es
                   /\ hist' = [hist EXCEPT ![i].embed_calls = Len(chunks),
                                           ![i].bad = {chunks[n] : n \in bad}]
                   /\ pc' = "store"
                   /\ UNCHANGED <<failed_count, i, k>>
    /\ UNCHANGED <<storeVars, envVars, documents_to_process, existing_count,
                   ingested_count, skipped_count, modified_time, returned,
                   svcVars, stored0, upserts, counted>>
    /\ UNCHANGED notIngest

\* Lines 1171-1208: generate_embedding chunk by chunk; the loop breaks at the
\* first failure (stop = its position, or Len(chunks) + 1 when none fails).
EmbedSequential ==
    /\ pc = "embed"
    /\ ~(batchAvail /\ Len(chunks) > 1)
    /\ \E stop \in 1..(Len(chunks) + 1) :
        /\ stop <= Len(chunks) => faults < MaxFaults
        /\ faults' = IF stop <= Len(chunks) THEN faults + 1 ELSE faults
        /\ LET es == [n \in 1..(stop - 1) |-> VecFor(chunks[n])]
           IN IF Len(es) # Len(chunks)
              THEN /\ failed_count' = failed_count + 1
                   /\ hist' = [hist EXCEPT ![i].embed_calls = stop,
                                           ![i].bad = {chunks[stop]},
                                           ![i].verdict = "failed"]
                   /\ NextDocument
              ELSE /\ embeddings' = es
                   /\ hist' = [hist EXCEPT ![i].embed_calls = Len(chunks)]
                   /\ pc' = "store"
                   /\ UNCHANGED <<failed_count, i, chunks, k>>
    /\ UNCHANGED <<storeVars, envVars, documents_to_process, existing_count,
                   ingested_count, skipped_count, modified_time, returned,
                   svcVars, stored0, upserts, counted>>
    /\ UNCHANGED notIngest

\* ingest_to_pgvector returned False (lines 1217-1219).
StoreFailed ==
    /\ failed_count' = failed_count + 1
    /\ hist' = [hist EXCEPT ![i].verdict = "failed"]
    /\ pc' = "commit"

\* ingest_to_pgvector, lines 926-933: stat() and the DELETE.  In an aborted
\* transaction the DELETE raises and lines 964-967 roll back.
StoreDelete ==
    /\ pc = "store"
    /\ IF txFailed
       THEN /\ work' = RollbackOnError(committed, work)
            /\ txFailed' = FALSE
            /\ StoreFailed
            /\ UNCHANGED <<k, upserts>>
       ELSE /\ work' = DeleteRows(work, CurPath)
            /\ txFailed' = txFailed
            /\ hist' = [hist EXCEPT ![i].writes = @ + 1]
            /\ upserts' = upserts \cup
                  {UpsertRows(CurPath, chunks, embeddings, modified_time)}
            /\ k' = 1
            /\ pc' = "insert"
            /\ failed_count' = failed_count
    /\ UNCHANGED <<committed, otherDocs, envVars, faults, i, documents_to_process,
                   existing_count, ingested_count, skipped_count, modified_time,
                   chunks, embeddings, returned, svcVars, stored0, counted>>
    /\ UNCHANGED notIngest

\* Lines 957-959: file_path.stat() raises OSError; nothing was written and
\* nothing is rolled back.
StoreStatFails ==
    /\ pc = "store"
    /\ faults < MaxFaults
    /\ faults' = faults + 1
    /\ StoreFailed
    /\ UNCHANGED <<storeVars, envVars, i, documents_to_process, existing_count,
                   ingested_count, skipped_count, modified_time, chunks,
                   embeddings, k, returned, svcVars, stored0, upserts, counted>>
    /\ UNCHANGED notIngest

\* Lines 936-955 and 1212-1216: one INSERT per pair, then True is returned and
\* the document is counted.  A duplicate (file_path, chunk_index) raises
\* IntegrityError (lines 960-963).
StoreInsert ==
    /\ pc = "insert"
    /\ IF k > ZipLen(chunks, embeddings)
       THEN /\ ingested_count' = ingested_count + 1
            /\ counted' = counted \cup {i}
            /\ hist' = [hist EXCEPT ![i].verdict = "ingested"]
            /\ pc' = "commit"
            /\ UNCHANGED <<work, failed_count, k>>
       ELSE IF Conflicts(work, Row(CurPath, chunks, embeddings, k, modified_time))
       THEN /\ work' = RollbackOnError(committed, work)
            /\ StoreFailed
            /\ UNCHANGED <<ingested_count, counted, k>>
       ELSE /\ work' = work \cup {Row(CurPath, chunks, embeddings, k, modified_time)}
            /\ k' = k + 1
            /\ hist' = [hist EXCEPT ![i].writes = @ + 1]
            /\ UNCHANGED <<pc, ingested_count, failed_count, counted>>
    /\ UNCHANGED <<committed, txFailed, otherDocs, envVars, faults, i,
                   documents_to_process, existing_count, skipped_count,
                   modified_time, chunks, embeddings, returned, svcVars,
                   stored0, upserts>>
    /\ UNCHANGED notIngest

\* Lines 964-967: an INSERT raises; the connection is rolled back.
StoreInsertFails ==
    /\ pc = "insert"
    /\ k <= ZipLen(chunks, embeddings)
    /\ faults < MaxFaults
    /\ faults' = faults + 1
    /\ work' = RollbackOnError(committed, work)
    /\ StoreFailed
    /\ UNCHANGED <<committed, txFailed, otherDocs, envVars, i,
                   documents_to_process, existing_count, ingested_count,
                   skipped_count, modified_time, chunks, embeddings, k,
                   returned, svcVars, stored0, upserts, counted>>
    /\ UNCHANGED notIngest

\* Lines 1221-1227: commit when the position is a multiple of 5.
CommitCheck ==
    /\ pc = "commit"
    /\ IF i % CommitEvery = 0
       THEN /\ committed' = Commit(committed, work, txFailed)
            /\ work' = committed'
            /\ txFailed' = FALSE
       ELSE UNCHANGED <<committed, work, txFailed>>
    /\ NextDocument
    /\ UNCHANGED <<otherDocs, envVars, faults, documents_to_process,
                   existing_count, ingested_count, failed_count, skipped_count,
                   modified_time, returned, svcVars, histVars>>
    /\ UNCHANGED notIngest

\* Lines 1229-1245: conn.commit() raises; the handler counts a failure and
\* rolls back.
CommitFails ==
    /\ pc = "commit"
    /\ i % CommitEvery = 0
    /\ faults < MaxFaults
    /\ faults' = faults + 1
    /\ failed_count' = failed_count + 1
    /\ work' = Rollback(committed, work)
    /\ txFailed' = FALSE
    /\ NextDocument
    /\ UNCHANGED <<committed, otherDocs, envVars, documents_to_process,
                   existing_count, ingested_count, skipped_count, modified_time,
                   returned, svcVars, histVars>>
    /\ UNCHANGED notIngest

\* Lines 1247-1275 and 1311-1319: the final commit, the summary, the return
\* value; the connection is closed.
FinalCommit ==
    /\ pc = "final"
    /\ committed' = Commit(committed, work, txFailed)
    /\ work' = committed'
    /\ txFailed' = FALSE
    /\ returned' = ingested_count
    /\ pc' = "done"
    /\ UNCHANGED <<otherDocs, envVars, faults, i, documents_to_process,
                   existing_count, ingested_count, failed_count, skipped_count,
                   modified_time, chunks, embeddings, k, svcVars, histVars>>
    /\ UNCHANGED notIngest

\* Lines 1253-1254: the final commit raises; the error is logged only, and
\* close() drops the open transaction.
FinalCommitFails ==
    /\ pc = "final"
    /\ faults < MaxFaults
    /\ faults' = faults + 1
    /\ work' = Rollback(committed, work)
    /\ txFailed' = FALSE
    /\ returned' = ingested_count
    /\ pc' = "done_commit_error"
    /\ UNCHANGED <<committed, otherDocs, envVars, i, documents_to_process,
                   existing_count, ingested_count, failed_count, skipped_count,
                   modified_time, chunks, embeddings, k, svcVars, histVars>>
    /\ UNCHANGED notIngest

NextRun ==
    \/ StartRun \/ LoopHead \/ StatFails \/ Interrupt
    \/ ExistsCheck \/ ExistsCheckFails \/ Extract \/ ExtractTooShort
    \/ EmbedBatch \/ EmbedSequential
    \/ StoreDelete \/ StoreStatFails \/ StoreInsert \/ StoreInsertFails
    \/ CommitCheck \/ CommitFails \/ FinalCommit \/ FinalCommitFails

----------------------------------------------------------------------------
(***************************************************************************)
(* DatabaseService.ingest_document (src/services/database_service.py):     *)
(* one pooled connection and one transaction per document.                 *)
(***************************************************************************)
SvcReturn(ok) ==
    /\ svc' = [svc EXCEPT !.pc = "idle", !.ret = IF ok THEN "True" ELSE "False"]
    /\ checkedOut' = checkedOut - 1

\* Lines 230-242: get_connection, os.path.getsize and the DELETE.  The lists
\* are the caller's: embeddings may be shorter or longer than chunks.
SvcCall ==
    /\ pc = "idle"
    /\ svc.pc = "idle"
    /\ svcCalls < MaxSvcCalls
    /\ svcCalls' = svcCalls + 1
    /\ checkedOut' = checkedOut + 1
    /\ \E p \in {1, 2}, n \in 1..MaxChunks, m \in 1..MaxChunks :
        /\ svc' = [pc |-> "insert", path |-> p,
                   chunks |-> [j \in 1..n |-> ChunkId(MaxDocs + svcCalls', j)],
                   embeddings |-> [j \in 1..m |->
                                     VecFor(ChunkId(MaxDocs + svcCalls', j))],
                   mtime |-> OldMtime + svcCalls', k |-> 1, ret |-> "none"]
        /\ work' = DeleteRows(work, p)
        /\ upserts' = upserts \cup
              {UpsertRows(p, svc'.chunks, svc'.embeddings, svc'.mtime)}
    /\ UNCHANGED <<committed, txFailed, otherDocs, envVars, faults, runVars,
                   stored0, counted, hist>>
    /\ UNCHANGED notIngest

\* Lines 245-261: one INSERT per pair of zip(chunks, embeddings).
SvcInsert ==
    /\ svc.pc = "insert"
    /\ svc.k <= ZipLen(svc.chunks, svc.embeddings)
    /\ LET row == Row(svc.path, svc.chunks, svc.embeddings, svc.k, svc.mtime)
       IN IF Conflicts(work, row)
          THEN /\ work' = RollbackOnError(committed, work)
               /\ SvcReturn(FALSE)
          ELSE /\ work' = work \cup {row}
               /\ svc' = [svc EXCEPT !.k = @ + 1]
               /\ checkedOut' = checkedOut
    /\ UNCHANGED <<committed, txFailed, otherDocs, envVars, faults, runVars,
                   svcCalls, histVars>>
    /\ UNCHANGED notIngest

\* Lines 267-274: a statement or the commit raises: rollback, False, and the
\* connection goes back to the pool.
SvcFails ==
    /\ svc.pc = "insert"
    /\ faults < MaxFaults
    /\ faults' = faults + 1
    /\ work' = RollbackOnError(committed, work)
    /\ SvcReturn(FALSE)
    /\ UNCHANGED <<committed, txFailed, otherDocs, envVars, runVars, svcCalls,
                   histVars>>
    /\ UNCHANGED notIngest

\* Lines 263-265 and 272-274: commit, True, and the connection goes back.
SvcCommit ==
    /\ svc.pc = "insert"
    /\ svc.k > ZipLen(svc.chunks, svc.embeddings)
    /\ committed' = Commit(committed, work, txFailed)
    /\ work' = committed'
    /\ SvcReturn(TRUE)
    /\ UNCHANGED <<txFailed, otherDocs, envVars, faults, runVars, svcCalls,
                   histVars>>
    /\ UNCHANGED notIngest

NextSvc == SvcCall \/ SvcInsert \/ SvcFails \/ SvcCommit

NextIngest == NextRun \/ NextSvc

SpecIngest == InitIngest /\ [][NextIngest]_vars

----------------------------------------------------------------------------
(***************************************************************************)
(* Claims about ingestion and the store, checked under SpecIngest.         *)
(***************************************************************************)

\* The rows of the upserts of path p that were started, as whole sets.
UpsertSetsOf(p) == {u \in upserts : u # {} /\ \A r \in u : r.file_path = p}

\* C1: at every point of an ingestion run (insert failures and interruptions
\* included) a reader on another connection sees, for every path, either the
\* full row set of one upsert or the rows committed before; never a part of
\* the rows of an upsert.
C1_NoPartialChunkSetVisible ==
    \A p \in Paths :
        \/ RowsOf(committed, p) = RowsOf(stored0, p)
        \/ RowsOf(committed, p) \in UpsertSetsOf(p)

\* C1 witness: a run ended in which an upsert died after some of its rows were
\* written, and the reader sees rows of a later upsert.
C1_Witness ==
    /\ pc = "done"
    /\ committed # stored0
    /\ \E d \in 1..MaxDocs : hist[d].verdict = "failed" /\ hist[d].writes >= 2

\* The list positions whose chunks the store holds durably.
PersistedDocs == {d \in 1..MaxDocs : \E r \in committed : DocOf(r.chunk_content) = d}

\* Storing the document at position d failed after its DELETE was executed.
StoreFailedAt(d) == hist[d].verdict = "failed" /\ hist[d].writes >= 1

\* C2: when storing one document failed and the run has returned after its
\* final commit, every document the run counted as ingested is stored, and the
\* returned count is the number of documents whose chunks the run persisted.
C2_CountedDocumentsPersisted ==
    (pc = "done" /\ faults = 1 /\ \E d \in 1..MaxDocs : StoreFailedAt(d)) =>
        /\ counted \subseteq PersistedDocs
        /\ returned = Cardinality(PersistedDocs)

\* C4 (first part): when an upsert has returned success, the writing
\* connection holds for the path exactly one row per (chunk, embedding) pair,
\* with chunk_index 0..n-1 in input order.
ExactlyThePairs(rows, p, cs, es, mt) ==
    /\ Cardinality(RowsOf(rows, p)) = ZipLen(cs, es)
    /\ \A n \in 1..ZipLen(cs, es) :
         \E r \in RowsOf(rows, p) :
            /\ r.chunk_index = n - 1
            /\ r.chunk_content = cs[n]
            /\ r.embedding = es[n]
            /\ r.modified_time = mt

\* C4 (second part): the committed rows of a path stem from one upsert only
\* and their indices are 0..n-1 without a gap.
OneUpsertOnly(rows, p) ==
    /\ \A r1, r2 \in RowsOf(rows, p) :
          DocOf(r1.chunk_content) = DocOf(r2.chunk_content)
    /\ {r.chunk_index : r \in RowsOf(rows, p)} = 0..(Cardinality(RowsOf(rows, p)) - 1)

\* C4: after a committed upsert of a path that follows an earlier upsert of
\* the same path the stored rows are exactly the pairs of the latest upsert,
\* indexed 0..n-1 in input order, and no row of the earlier upsert remains.
C4_ReplaceNotAppend ==
    /\ \A p \in Paths : OneUpsertOnly(committed, p)
    /\ (pc = "commit" /\ hist[i].verdict = "ingested") =>
          ExactlyThePairs(work, CurPath, chunks, embeddings, modified_time)
    /\ (svc.pc = "idle" /\ svc.ret = "True") =>
          ExactlyThePairs(committed, svc.path, svc.chunks, svc.embeddings, svc.mtime)

\* C4 witness: a path stored with three chunks was upserted again with fewer,
\* and the upsert is committed.
C4_Witness ==
    /\ svc.pc = "idle" /\ svc.ret = "True"
    /\ RowsOf(stored0, svc.path) # {}
    /\ ZipLen(svc.chunks, svc.embeddings) < Cardinality(RowsOf(stored0, svc.path))

\* C5: a document whose path is stored with the file's current modification
\* time is counted as skipped, and nothing is extracted, embedded or written
\* for it; a stored modification time that differs, older or newer, leads to
\* re-ingestion.
C5_SkipIfUnchanged ==
    \A d \in 1..MaxDocs :
        /\ hist[d].stored = "equal" =>
              /\ hist[d].verdict \in {"none", "skipped"}
              /\ (i > d \/ pc = "done") => hist[d].verdict = "skipped"
              /\ ~hist[d].extracted
              /\ hist[d].embed_calls = 0
              /\ hist[d].writes = 0
        /\ hist[d].stored = "differs" =>
              hist[d].extracted \/ (pc = "extract" /\ i = d)

\* C6: with N documents stored, M new documents in the list and nothing going
\* wrong, min(M, 50 - N) documents are ingested and the other M - min(M, 50 - N)
\* are in the skipped count; with N >= 50 nothing is ingested.
C6_CeilingAndSkippedCount ==
    /\ (pc = "done" /\ faults = 0 /\ stored0 = {}) =>
          LET fit == Min(Len(documents), DocLimit - otherDocs)
          IN /\ ingested_count = fit
             /\ Cardinality(PersistedDocs) = fit
             /\ skipped_count = Len(documents) - fit
    /\ pc = "limit" => (committed = stored0 /\ returned = 0)

\* C7: every row the run writes pairs a chunk with the embedding made for that
\* chunk; a chunk whose embedding failed is in no row; and a document all of
\* whose chunks failed is counted as failed and nothing is written for it.
C7_RowsPairChunkWithItsEmbedding ==
    /\ \A r \in work \cup committed :
          /\ r.embedding = VecFor(r.chunk_content)
          /\ \A d \in 1..MaxDocs : r.chunk_content \notin hist[d].bad
    /\ pc \in {"store", "insert"} =>
          /\ Len(chunks) = Len(embeddings)
          /\ \A n \in 1..Len(chunks) : embeddings[n] = VecFor(chunks[n])
    /\ \A d \in 1..MaxDocs :
          (hist[d].extracted /\ Cardinality(hist[d].bad) = NChunks(d)) =>
              (hist[d].verdict = "failed" /\ hist[d].writes = 0)

\* C7 witness: a document lost the embedding of one of its chunks and its
\* other chunk is stored durably.
C7_Witness ==
    \E d \in 1..MaxDocs :
        /\ hist[d].bad # {}
        /\ hist[d].verdict = "ingested"
        /\ \E r \in committed : DocOf(r.chunk_content) = d

\* the documents that have writes in the open transaction
OpenDocs == {p \in Paths : RowsOf(work, p) # RowsOf(committed, p)}

\* C26: a commit is issued after every fifth document of the processed list:
\* when the loop moves past a position that is a multiple of 5 nothing is
\* left in the open transaction; the open transaction never holds the writes
\* of more than 5 documents; and after the run has returned nothing is left
\* uncommitted.
C26_CommitEveryFifthDocument ==
    /\ (pc = "loop" /\ i > 1 /\ (i - 1) % CommitEvery = 0) => work = committed
    /\ Cardinality(OpenDocs) <= CommitEvery
    /\ pc \in {"done", "done_commit_error"} => work = committed

\* C30: when the loop has gone through all n documents of the processed
\* list, ingested + failed + skipped = n.
C30_EveryDocumentCountedOnce ==
    (pc \in {"final", "done", "done_commit_error"}
        /\ i = Len(documents_to_process) + 1) =>
       ingested_count + failed_count + skipped_count = Len(documents_to_process)

----------------------------------------------------------------------------
(***************************************************************************)
(* BatchEmbeddingGenerator.generate_embeddings (src/batch_embeddings.py):  *)
(* the texts are cut into batches, a pool of max_workers threads runs      *)
(* _generate_batch on them and the caller collects the futures in the      *)
(* order they complete.                                                    *)
(***************************************************************************)
\* Lines 229-232: batch_id = i // batch_size holds texts[i : i + batch_size].
NBatches == (Len(texts) + batch_size - 1) \div batch_size
BatchIds == 0..(NBatches - 1)
BatchFirst(b) == b * batch_size + 1
BatchLast(b) == Min((b + 1) * batch_size, Len(texts))
Batch(b) == SubSeq(texts, BatchFirst(b), BatchLast(b))
BatchOf(n) == (n - 1) \div batch_size

\* A faulty variant, to test C3's formula: the position follows the order of
\* completion.
StartIdxByCompletion(batch_id, done) == done * batch_size
\* Line 255: start_idx = batch_id * self.batch_size
StartIdx(batch_id, done) == batch_id * batch_size

\* Lines 256-257: results[start_idx + i] = emb for i, emb in enumerate(embeddings)
StoreEmbeddings(res, start_idx, embs) ==
    [n \in 1..Len(res) |->
        IF n - start_idx \in 1..Len(embs) THEN embs[n - start_idx] ELSE res[n]]

\* A faulty variant, to test C9's formula: an exception voids the whole list.
MarkAllFailed(res, batch_id) == [n \in 1..Len(res) |-> None]
\* Lines 271-276: the except-branch only counts; the positions of the batch
\* keep the None of line 237.
MarkBatchFailed(res, batch_id) == res

\* The futures as_completed has handed over so far.
Handed == {collected[x] : x \in 1..Len(collected)}
Running == {b \in DOMAIN future : future[b].state = "running"}
Queued == {b \in DOMAIN future : future[b].state = "queued"}

InitBatch ==
    /\ QuietIngest /\ QuietEmbed /\ QuietCache /\ QuietPool /\ QuietChunk /\ QuietDedup /\ QuietPrompt /\ QuietPipe /\ QuietSession /\ QuietPosting /\ QuietModel
    /\ \E m \in 0..MaxTexts : texts = [n \in 1..m |-> ChunkId(1, n)]
    /\ nonstr \in SUBSET (1..Len(texts))
    /\ batch_size \in 1..MaxBatchSize
    /\ max_workers \in 1..MaxWorkers
    /\ gpc = "idle"
    /\ future = <<>>
    /\ results = <<>>
    /\ completed = 0
    /\ collected = <<>>
    /\ gen_stats = [successful |-> 0, failed |-> 0]

\* Lines 222-244: the empty list is answered at once; otherwise the result
\* list is allocated and every batch is submitted.
GenerateEmbeddings ==
    /\ gpc = "idle"
    /\ IF texts = <<>>
       THEN /\ gpc' = "returned"
            /\ UNCHANGED <<future, results>>
       ELSE /\ gpc' = "collect"
            /\ future' = [b \in BatchIds |-> [state |-> "queued", embeddings |-> <<>>]]
            /\ results' = [n \in 1..Len(texts) |-> None]
    /\ UNCHANGED <<texts, nonstr, batch_size, max_workers, completed, collected,
                   gen_stats>>
    /\ UNCHANGED notBatch

\* ThreadPoolExecutor: a free worker takes the batch that waits longest.
WorkerStart(b) ==
    /\ gpc = "collect"
    /\ b \in Queued
    /\ \A c \in Queued : b <= c
    /\ Cardinality(Running) < max_workers
    /\ future' = [future EXCEPT ![b].state = "running"]
    /\ UNCHANGED <<texts, nonstr, batch_size, max_workers, gpc, results,
                   completed, collected, gen_stats>>
    /\ UNCHANGED notBatch

\* _generate_batch, lines 192-194: one call of _generate_single, which gives
\* the vector of the text or None; text[:8000] (line 119) raises for a text
\* that is no string, and the exception ends the batch.
GenerateSingle(b) ==
    /\ gpc = "collect"
    /\ b \in Running
    /\ Len(future[b].embeddings) < Len(Batch(b))
    /\ LET n == BatchFirst(b) + Len(future[b].embeddings)
       IN IF n \in nonstr
          THEN future' = [future EXCEPT ![b].state = "raised"]
          ELSE \E emb \in {VecFor(texts[n]), None} :
                  future' = [future EXCEPT ![b].embeddings = Append(@, emb)]
    /\ UNCHANGED <<texts, nonstr, batch_size, max_workers, gpc, results,
                   completed, collected, gen_stats>>
    /\ UNCHANGED notBatch

\* _generate_batch, line 205: the list of the batch is returned.
BatchReturn(b) ==
    /\ gpc = "collect"
    /\ b \in Running
    /\ Len(future[b].embeddings) = Len(Batch(b))
    /\ future' = [future EXCEPT ![b].state = "finished"]
    /\ UNCHANGED <<texts, nonstr, batch_size, max_workers, gpc, results,
                   completed, collected, gen_stats>>
    /\ UNCHANGED notBatch

CountOf(embs, what) ==
    Cardinality({n \in 1..Len(embs) : (embs[n] = None) = (what = "failed")})

\* Lines 248-263: as_completed hands over a future that returned.
CollectResult(b) ==
    /\ gpc = "collect"
    /\ b \in DOMAIN future
    /\ b \notin Handed
    /\ future[b].state = "finished"
    /\ results' = StoreEmbeddings(results, StartIdx(b, completed), future[b].embeddings)
    /\ gen_stats' = [successful |-> gen_stats.successful
                                       + CountOf(future[b].embeddings, "successful"),
                     failed |-> gen_stats.failed
                                   + CountOf(future[b].embeddings, "failed")]
    /\ completed' = completed + 1
    /\ collected' = Append(collected, b)
    /\ UNCHANGED <<texts, nonstr, batch_size, max_workers, gpc, future>>
    /\ UNCHANGED notBatch

\* Lines 248-252 and 271-276: as_completed hands over a future that raised.
CollectException(b) ==
    /\ gpc = "collect"
    /\ b \in DOMAIN future
    /\ b \notin Handed
    /\ future[b].state = "raised"
    /\ results' = MarkBatchFailed(results, b)
    /\ gen_stats' = [gen_stats EXCEPT !.failed = @ + Len(Batch(b))]
    /\ collected' = Append(collected, b)
    /\ UNCHANGED <<texts, nonstr, batch_size, max_workers, gpc, future, completed>>
    /\ UNCHANGED notBatch

\* Lines 278-294: every future was handed over; the list is returned.
ReturnResults ==
    /\ gpc = "collect"
    /\ Handed = DOMAIN future
    /\ gpc' = "returned"
    /\ UNCHANGED <<texts, nonstr, batch_size, max_workers, future, results,
                   completed, collected, gen_stats>>
    /\ UNCHANGED notBatch

NextBatch ==
    \/ GenerateEmbeddings
    \/ \E b \in DOMAIN future :
          \/ WorkerStart(b) \/ GenerateSingle(b) \/ BatchReturn(b)
          \/ CollectResult(b) \/ CollectException(b)
    \/ ReturnResults

SpecBatch == InitBatch /\ [][NextBatch]_vars

(***************************************************************************)
(* Claims about generate_embeddings, checked under SpecBatch.              *)
(***************************************************************************)
\* What _generate_batch gave for position n of the input: the element of the
\* list its batch returned, or nothing (None) when the batch raised.
OutcomeFor(n) ==
    LET b == BatchOf(n)
    IN IF future[b].state = "finished"
       THEN future[b].embeddings[n - BatchFirst(b) + 1]
       ELSE None

\* C3: whatever the batch size, the number of workers and the order in which
\* the batches complete, the returned list is as long as texts and position i
\* holds what was produced for texts[i]: the vector of that text or None.
C3_BatchOrderPreserved ==
    gpc = "returned" =>
        /\ Len(results) = Len(texts)
        /\ \A n \in 1..Len(texts) :
              /\ results[n] = OutcomeFor(n)
              /\ results[n] \in {None, VecFor(texts[n])}

\* C3 witness: a call returned whose batches were collected out of order (a
\* later batch before the first one) and which holds vectors and a None.
C3_Witness ==
    /\ gpc = "returned"
    /\ NBatches >= 2
    /\ completed = NBatches
    /\ gen_stats.successful >= 2
    /\ gen_stats.failed >= 1
    /\ collected[1] # 0
    /\ results[1] # None

\* C9: when a batch raised, the call still returns; every position of that
\* batch holds None, every other batch ran to its end and was collected, and
\* the positions of the other batches hold the lists those batches returned.
C9_BatchExceptionIsolated ==
    (gpc = "returned" /\ \E b \in DOMAIN future : future[b].state = "raised") =>
        \A b \in DOMAIN future :
            /\ b \in Handed
            /\ future[b].state \in {"finished", "raised"}
            /\ \A n \in BatchFirst(b)..BatchLast(b) :
                  results[n] = IF future[b].state = "raised"
                               THEN None
                               ELSE future[b].embeddings[n - BatchFirst(b) + 1]

\* C9 witness: a call returned in which one batch raised and a position of
\* another batch holds the vector of its text.
C9_Witness ==
    /\ gpc = "returned"
    /\ \E b \in DOMAIN future : future[b].state = "raised"
    /\ \E n \in 1..Len(results) : results[n] # None
    /\ gen_stats.successful >= 1
    /\ gen_stats.failed >= 1

----------------------------------------------------------------------------
(***************************************************************************)
(* The embedding request with its retries: generate_embedding              *)
(* (src/WhereSpace.py) and BatchEmbeddingGenerator._generate_single        *)
(* (src/batch_embeddings.py).  Both run the same loop; they differ in the  *)
(* answer to a response body that is no JSON.                              *)
(***************************************************************************)
Impls == {"generate_embedding", "_generate_single"}

\* What one request to the endpoint can come to.
Answers ==
    {[kind |-> "embedding", len |-> OLLAMA_EMBED_DIMENSION],
     [kind |-> "embedding", len |-> OLLAMA_EMBED_DIMENSION + 1],
     [kind |-> "embedding", len |-> 0],
     [kind |-> "no_embedding", len |-> 0],
     [kind |-> "timeout", len |-> 0],
     [kind |-> "connection_error", len |-> 0],
     [kind |-> "json_decode_error", len |-> 0],
     [kind |-> "http_error", len |-> 0]}

\* A faulty variant: only a vector of the configured dimension is accepted.
CarriesRightDimension(ans) == ans.kind = "embedding" /\ ans.len = OLLAMA_EMBED_DIMENSION
\* "if not embedding": the key is missing or the list is empty.
CarriesEmbedding(ans) == ans.kind = "embedding" /\ ans.len > 0

\* A faulty variant, to test C8's formula: the retry is not limited.
RetryAlways(n) == TRUE
\* "if attempt < max_retries - 1" of every retrying branch
Retry(n) == n < max_retries - 1

\* base_delay * (2 ** attempt), in units of base_delay
RECURSIVE Pow2(_)
Pow2(n) == IF n = 0 THEN 1 ELSE 2 * Pow2(n - 1)
Delay(n) == Pow2(n)

\* The except-branch an answer ends in: WhereSpace.py has a branch for
\* JSONDecodeError that returns None (lines 635-637); in batch_embeddings.py
\* it falls to "except Exception" (lines 166-171), which retries.
GivesUp(f, ans) == f = "generate_embedding" /\ ans.kind = "json_decode_error"

InitEmbed ==
    /\ QuietIngest /\ QuietBatch /\ QuietCache /\ QuietPool /\ QuietChunk /\ QuietDedup /\ QuietPrompt /\ QuietPipe /\ QuietSession /\ QuietPosting /\ QuietModel
    /\ impl \in Impls
    /\ requests_available \in
          (IF impl = "generate_embedding" THEN BOOLEAN ELSE {TRUE})
    /\ epc = "idle"
    /\ attempt = 0
    /\ embedding = NoEmbedding
    /\ requests = <<>>
    /\ sleeps = <<>>

\* WhereSpace.py lines 561-568 / batch_embeddings.py lines 115-121.
EmbedCall ==
    /\ epc = "idle"
    /\ epc' = IF requests_available THEN "post" ELSE "returned_none"
    /\ UNCHANGED <<impl, requests_available, attempt, embedding, requests, sleeps>>
    /\ UNCHANGED notEmbed

\* One pass of the loop body: the POST and what follows from its answer
\* (WhereSpace.py lines 583-647, batch_embeddings.py lines 129-171); the
\* sleep itself is the next step.
Post ==
    /\ epc = "post"
    /\ \E ans \in Answers :
        /\ requests' = Append(requests, ans)
        /\ IF CarriesEmbedding(ans)
           THEN /\ embedding' = [len |-> ans.len, request |-> Len(requests')]
                /\ epc' = "returned"
           ELSE /\ embedding' = embedding
                /\ epc' = IF ~GivesUp(impl, ans) /\ Retry(attempt)
                          THEN "sleep" ELSE "returned_none"
    /\ UNCHANGED <<impl, requests_available, attempt, sleeps>>
    /\ UNCHANGED notEmbed

\* time.sleep(delay); continue
Sleep ==
    /\ epc = "sleep"
    /\ sleeps' = Append(sleeps, Delay(attempt))
    /\ attempt' = attempt + 1
    /\ epc' = "post"
    /\ UNCHANGED <<impl, requests_available, embedding, requests>>
    /\ UNCHANGED notEmbed

NextEmbed == EmbedCall \/ Post \/ Sleep

SpecEmbed == InitEmbed /\ [][NextEmbed]_vars

(***************************************************************************)
(* Claims about the embedding request, checked under SpecEmbed.            *)
(***************************************************************************)
Transient == {"timeout", "connection_error", "no_embedding"}
IsTransient(ans) == ans.kind \in Transient \/ (ans.kind = "embedding" /\ ans.len = 0)

\* C8: a call sends at most three requests; a returned vector is the one of
\* the first response with a non-empty embedding; a timeout, a connection
\* error or an empty embedding on attempt 1 or 2 is followed by a backoff wait
\* and another attempt; after a failure on attempt 3 the call returns None,
\* and a returned value is never a vector no response carried.
C8_AtMostThreeRequestsThenNone ==
    /\ Len(requests) <= max_retries
    /\ epc = "returned" =>
          /\ embedding.request = Len(requests)
          /\ CarriesEmbedding(requests[embedding.request])
          /\ embedding.len = requests[embedding.request].len
          /\ \A n \in 1..(Len(requests) - 1) : ~CarriesEmbedding(requests[n])
    /\ \A n \in 1..Len(requests) :
          (n < max_retries /\ IsTransient(requests[n])) =>
              \/ epc = "sleep" /\ n = Len(requests) /\ Len(sleeps) = n - 1
              \/ /\ Len(sleeps) >= n
                 /\ sleeps[n] = Delay(n - 1)
                 /\ Len(requests) > n \/ epc = "post"
    /\ (Len(requests) = max_retries /\ ~CarriesEmbedding(requests[max_retries])) =>
          /\ epc = "returned_none"
          /\ embedding = NoEmbedding
    /\ epc = "returned_none" => embedding = NoEmbedding

\* C8 witness: a timeout, a connection error and an empty embedding were
\* answered to attempts 1, 2 and 3, two waits lay between them, and the call
\* returned None.
C8_Witness ==
    /\ epc = "returned_none"
    /\ Len(requests) = max_retries
    /\ \A n \in 1..Len(requests) : IsTransient(requests[n])
    /\ {requests[n].kind : n \in 1..Len(requests)} = Transient
    /\ Len(sleeps) = max_retries - 1

\* C15: an HTTP error status and a malformed-JSON response are both
\* retriable: after either one on attempt 1 or 2 the call does not end, it
\* waits and makes another attempt; failure is reported only after the third
\* failed attempt.
C15_HttpErrorAndBadJsonRetried ==
    /\ \A n \in 1..Len(requests) :
          (n < max_retries /\ requests[n].kind \in {"http_error", "json_decode_error"}) =>
              \/ epc = "sleep" /\ n = Len(requests)
              \/ Len(requests) > n \/ epc = "post"
    /\ (epc = "returned_none" /\ requests_available) => Len(requests) = max_retries

\* C22: a response with a non-empty vector whose length is not the
\* configured dimension ends the call on that attempt: the vector is
\* returned with the length it came with, and no further request or wait
\* follows it.
C22_WrongDimensionReturned ==
    \A n \in 1..Len(requests) :
       (requests[n].kind = "embedding" /\ requests[n].len > 0
           /\ requests[n].len # OLLAMA_EMBED_DIMENSION) =>
          /\ n = Len(requests)
          /\ epc = "returned"
          /\ embedding = [len |-> requests[n].len, request |-> n]
          /\ Len(sleeps) = n - 1

\* C22 witness: after a failed first attempt the second response carried a
\* vector of the wrong length, and the call returned it.
C22_Witness ==
    /\ epc = "returned"
    /\ Len(requests) = 2
    /\ embedding.len # OLLAMA_EMBED_DIMENSION
    /\ embedding.len = requests[2].len

----------------------------------------------------------------------------
(***************************************************************************)
(* QueryCache (src/optimized_rag_query.py): a dict and two counters behind *)
(* one threading.Lock.  Every method body runs inside "with self.lock";    *)
(* the steps below are the places where another thread can run in between. *)
(***************************************************************************)
\* The dict, in insertion order.
HasKey(c, key) == \E n \in 1..Len(c) : c[n].key = key
EntryOf(c, key) == c[CHOOSE n \in 1..Len(c) : c[n].key = key]
DelKey(c, key) == SelectSeq(c, LAMBDA e : e.key # key)
PutKey(c, key, res, t) ==
    LET entry == [key |-> key, results |-> res, timestamp |-> t]
    IN IF HasKey(c, key)
       THEN [n \in 1..Len(c) |-> IF c[n].key = key THEN entry ELSE c[n]]
       ELSE Append(c, entry)

\* Faulty variants, to test the formulas of C11 and C12: an entry of age ttl
\* still counts as fresh; the newest entry is evicted.
FreshAtTtl(entry, t) == t - entry.timestamp <= ttl
NewestKey(c) ==
    c[CHOOSE n \in 1..Len(c) :
        \A m \in 1..Len(c) : c[m].timestamp <= c[n].timestamp].key

\* Lines 167-168: min(self.cache.keys(), key=lambda k: self.cache[k]['timestamp']),
\* the first of the entries with the least timestamp.
OldestKey(c) ==
    c[CHOOSE n \in 1..Len(c) :
        \A m \in 1..Len(c) :
            \/ c[m].timestamp > c[n].timestamp
            \/ c[m].timestamp = c[n].timestamp /\ m >= n].key

\* Line 147: time.time() - entry['timestamp'] < self.ttl
Fresh(entry, t) == t - entry.timestamp < ttl

\* Lines 166-169: evict when the dict is full.
Evict(c) == IF Len(c) >= max_size THEN DelKey(c, OldestKey(c)) ELSE c

\* A faulty variant, to test C10's formula: the lock keeps nobody out.
LockNeverHeld(l) == TRUE
\* threading.Lock.acquire(): the caller goes on when the lock is free.
LockIsFree(l) == l = 0

InitCache ==
    /\ QuietIngest /\ QuietBatch /\ QuietEmbed /\ QuietPool /\ QuietChunk /\ QuietDedup /\ QuietPrompt /\ QuietPipe /\ QuietSession /\ QuietPosting /\ QuietModel
    /\ cache = <<>>
    /\ stats = [hits |-> 0, misses |-> 0]
    /\ lock = 0
    /\ max_size \in 1..MaxCacheSize
    /\ ttl \in {1, MaxTime}
    /\ now = 0
    /\ th = [t \in Threads |-> IdleThread]
    /\ calls = 0
    /\ order = <<>>
    /\ gets_done = 0
    /\ contended = FALSE
    /\ last = NoCall

\* History: a thread stands before the lock while another one holds it.
Waits(l, thr) == l # 0 /\ \E t \in Threads : thr[t].pc = "acquire"

\* A thread calls get(key), set(key, results) or clear().
Call(t) ==
    /\ th[t].pc = "idle"
    /\ calls < MaxCalls
    /\ calls' = calls + 1
    /\ \E op \in {"get", "set", "clear"}, key \in Keys :
        /\ op = "clear" => key = 1
        /\ th' = [th EXCEPT ![t] =
                    [IdleThread EXCEPT !.pc = "acquire", !.op = op,
                        !.key = IF op = "clear" THEN 0 ELSE key,
                        !.results = IF op = "set" THEN calls' ELSE 0]]
    /\ contended' = (contended \/ Waits(lock, th'))
    /\ UNCHANGED <<cache, stats, lock, max_size, ttl, now, order, gets_done>>
    /\ UNCHANGED notCache

\* with self.lock: (lines 143, 164, 178)
Acquire(t) ==
    /\ th[t].pc = "acquire"
    /\ LockIsFree(lock)
    /\ lock' = t
    /\ th' = [th EXCEPT ![t].pc = "locked"]
    /\ contended' = (contended \/ Waits(lock', th'))
    /\ UNCHANGED <<cache, stats, max_size, ttl, now, calls, order, gets_done>>
    /\ UNCHANGED notCache

\* The end of the with-block: the call is over.
Release(t, time) ==
    /\ lock' = 0
    /\ th' = [th EXCEPT ![t] = IdleThread]
    /\ order' = Append(order, [op |-> th[t].op, key |-> th[t].key,
                               results |-> th[t].results, time |-> time])
    /\ contended' = contended

\* get, lines 144-156, up to the read of the counter in "+= 1": the lookup,
\* the age of the entry, and the removal of an expired entry.
GetLookup(t) ==
    /\ th[t].pc = "locked"
    /\ th[t].op = "get"
    /\ \E time \in now..MaxTime :
        /\ now' = time
        /\ IF HasKey(cache, th[t].key) /\ Fresh(EntryOf(cache, th[t].key), time)
           THEN /\ cache' = cache
                /\ th' = [th EXCEPT ![t].pc = "count_hit", ![t].time = time,
                             ![t].count = stats.hits,
                             ![t].results = EntryOf(cache, th[t].key).results]
           ELSE /\ cache' = DelKey(cache, th[t].key)
                /\ th' = [th EXCEPT ![t].pc = "count_miss", ![t].time = time,
                             ![t].count = stats.misses]
    /\ UNCHANGED <<stats, lock, max_size, ttl, calls, order, gets_done, contended>>
    /\ UNCHANGED notCache

\* get, the write of the counter, and the return (lines 148-158).
GetCount(t) ==
    /\ th[t].pc \in {"count_hit", "count_miss"}
    /\ stats' = IF th[t].pc = "count_hit"
                THEN [stats EXCEPT !.hits = th[t].count + 1]
                ELSE [stats EXCEPT !.misses = th[t].count + 1]
    /\ gets_done' = gets_done + 1
    /\ Release(t, th[t].time)
    /\ UNCHANGED <<cache, max_size, ttl, now, calls>>
    /\ UNCHANGED notCache

\* set, lines 166-169: the eviction.
SetEvict(t) ==
    /\ th[t].pc = "locked"
    /\ th[t].op = "set"
    /\ cache' = Evict(cache)
    /\ th' = [th EXCEPT ![t].pc = "store"]
    /\ UNCHANGED <<stats, lock, max_size, ttl, now, calls, order, gets_done,
                   contended>>
    /\ UNCHANGED notCache

\* set, lines 171-174: the entry with the time of now.
SetStore(t) ==
    /\ th[t].pc = "store"
    /\ \E time \in now..MaxTime :
        /\ now' = time
        /\ cache' = PutKey(cache, th[t].key, th[t].results, time)
        /\ Release(t, time)
    /\ UNCHANGED <<stats, max_size, ttl, calls, gets_done>>
    /\ UNCHANGED notCache

\* clear, lines 178-180.
Clear(t) ==
    /\ th[t].pc = "locked"
    /\ th[t].op = "clear"
    /\ cache' = <<>>
    /\ Release(t, 0)
    /\ UNCHANGED <<stats, max_size, ttl, now, calls, gets_done>>
    /\ UNCHANGED notCache

NextCache ==
    \E t \in Threads :
        \/ Call(t) \/ Acquire(t)
        \/ GetLookup(t) \/ GetCount(t)
        \/ SetEvict(t) \/ SetStore(t)
        \/ Clear(t)

SpecCache == InitCache /\ [][NextCache]_vars

(***************************************************************************)
(* Claims about the query cache, checked under SpecCache.                  *)
(***************************************************************************)
\* get, set and clear as one thread alone runs them, on the contents and the
\* counters together.
SeqGet(q, key, time) ==
    IF HasKey(q.cache, key) /\ Fresh(EntryOf(q.cache, key), time)
    THEN [q EXCEPT !.hits = @ + 1]
    ELSE [q EXCEPT !.cache = DelKey(@, key), !.misses = @ + 1]
SeqSet(q, key, res, time) ==
    [q EXCEPT !.cache = PutKey(Evict(@), key, res, time)]
SeqClear(q) == [q EXCEPT !.cache = <<>>]
SeqCall(q, c) ==
    CASE c.op = "get" -> SeqGet(q, c.key, c.time)
      [] c.op = "set" -> SeqSet(q, c.key, c.results, c.time)
      [] OTHER -> SeqClear(q)

\* The calls of a sequence, one after the other on an empty cache.
RECURSIVE Replay(_, _)
Replay(cs, n) ==
    IF n = 0 THEN [cache |-> <<>>, hits |-> 0, misses |-> 0]
    ELSE SeqCall(Replay(cs, n - 1), cs[n])

InsideLock == {"locked", "count_hit", "count_miss", "store"}

\* C10: whatever the interleaving of get, set and clear from several threads,
\* the contents and the counters are, whenever no call is inside the lock,
\* those of the completed calls run one after the other; the dict never holds
\* more than max_size entries; hits + misses is the number of completed gets;
\* and a call that waits for the lock waits for a call that can go on.
C10_CallsAreAtomic ==
    /\ lock = 0 =>
          [cache |-> cache, hits |-> stats.hits, misses |-> stats.misses]
              = Replay(order, Len(order))
    /\ Len(cache) <= max_size
    /\ stats.hits + stats.misses = gets_done
    /\ \A t \in Threads : th[t].pc \in InsideLock => lock = t
    /\ (\E t \in Threads : th[t].pc # "idle") =>
          ENABLED (\E t \in Threads :
                      \/ Acquire(t) \/ GetLookup(t) \/ GetCount(t)
                      \/ SetEvict(t) \/ SetStore(t) \/ Clear(t))

\* C10 witness: every call is over, one of them had to wait for the lock, a
\* get was a hit and the dict is full.
C10_Witness ==
    /\ \A t \in Threads : th[t].pc = "idle"
    /\ calls = MaxCalls
    /\ Len(order) = MaxCalls
    /\ contended
    /\ stats.hits >= 1
    /\ \E n \in 1..Len(order) : order[n].op = "set"
    /\ Len(cache) = max_size

----------------------------------------------------------------------------
(***************************************************************************)
(* QueryCache used by one thread alone: every call runs from "with         *)
(* self.lock" to its return without another call in between.               *)
(***************************************************************************)
\* What get returns (line 150 or line 158); 0 stands for None.
GetReturn(c, key, time) ==
    IF HasKey(c, key) /\ Fresh(EntryOf(c, key), time)
    THEN EntryOf(c, key).results ELSE 0

Contents == [cache |-> cache, hits |-> stats.hits, misses |-> stats.misses]

\* The call c ran alone at the contents of now.
RanAlone(c) ==
    LET q == SeqCall(Contents, c)
        ret == IF c.op = "get" THEN GetReturn(cache, c.key, c.time) ELSE 0
    IN /\ calls < MaxSeqCalls
       /\ calls' = calls + 1
       /\ cache' = q.cache
       /\ stats' = [hits |-> q.hits, misses |-> q.misses]
       /\ now' = IF c.op = "clear" THEN now ELSE c.time
       /\ gets_done' = IF c.op = "get" THEN gets_done + 1 ELSE gets_done
       /\ last' = [op |-> c.op, key |-> c.key, time |-> c.time, ret |-> ret,
                   before |-> cache, stats |-> stats,
                   hit |-> IF ret # 0 THEN ret ELSE last.hit]
       /\ UNCHANGED <<lock, max_size, ttl, th, order, contended>>
       /\ UNCHANGED notCacheAlone

GetAlone ==
    \E key \in Keys, time \in now..MaxTime :
        RanAlone([op |-> "get", key |-> key, results |-> 0, time |-> time])

SetAlone ==
    \E key \in Keys, time \in now..MaxTime :
        RanAlone([op |-> "set", key |-> key, results |-> calls + 1, time |-> time])

ClearAlone ==
    RanAlone([op |-> "clear", key |-> 0, results |-> 0, time |-> 0])

NextCacheAlone == GetAlone \/ SetAlone \/ ClearAlone

SpecCacheAlone == InitCache /\ [][NextCacheAlone]_vars

(***************************************************************************)
(* Claims about expiry and eviction, checked under SpecCacheAlone.         *)
(***************************************************************************)
\* C11: a get of a key whose entry was stored at time T returns the entry's
\* results when it reads at a time t with t - T < ttl and leaves the entry
\* alone; at t - T >= ttl it returns None, the entry is gone from the dict
\* and the miss counter is one higher; a get of a key that is not in the dict
\* (as after such a removal) is a miss as well.
C11_TtlExpiry ==
    last.op = "get" =>
        IF HasKey(last.before, last.key)
        THEN LET entry == EntryOf(last.before, last.key)
             IN IF last.time - entry.timestamp < ttl
                THEN /\ last.ret = entry.results
                     /\ cache = last.before
                     /\ stats = [last.stats EXCEPT !.hits = @ + 1]
                ELSE /\ last.ret = 0
                     /\ ~HasKey(cache, last.key)
                     /\ Len(cache) = Len(last.before) - 1
                     /\ stats = [last.stats EXCEPT !.misses = @ + 1]
        ELSE /\ last.ret = 0
             /\ cache = last.before
             /\ stats = [last.stats EXCEPT !.misses = @ + 1]

\* C11 witness: a get read an entry exactly ttl after it was stored; the get
\* missed and the entry is gone.
C11_Witness ==
    /\ last.op = "get"
    /\ HasKey(last.before, last.key)
    /\ last.time - EntryOf(last.before, last.key).timestamp = ttl
    /\ last.ret = 0
    /\ ~HasKey(cache, last.key)
    /\ stats.misses = last.stats.misses + 1

\* The entries of the dict as a set, and the timestamps by key.
Entries(c) == {c[n] : n \in 1..Len(c)}
Stamps(c) == {<<e.key, e.timestamp>> : e \in Entries(c)}

MaxPool == 2
MaxOps == 3

ServiceOps == {"check_documents_exist", "list_documents", "search_similar_chunks",
               "delete_all_documents", "ingest_document", "get_document_chunks"}
PooledOps == {"search_similar_chunks_optimized"}

\* the pool an operation draws from
PoolOf(kind) == IF kind \in PooledOps THEN "pooled" ELSE "service"

\* the operations whose handler rolls back before it returns
RollsBack == {"delete_all_documents", "ingest_document"}

\* what the handler of an operation returns
Default(kind) ==
    CASE kind \in {"check_documents_exist", "delete_all_documents"} -> "(False, 0)"
      [] kind = "ingest_document" -> "False"
      [] OTHER -> "[]"

\* faulty variant: the connection goes back only when the body did not raise
ReturnedUnlessRaised(conn, exc) == conn /\ ~exc

\* finally: the connection, if one was obtained, goes back to the pool
ReturnsConn(conn, exc) == conn

InitPool ==
    /\ QuietIngest /\ QuietBatch /\ QuietEmbed /\ QuietCache /\ QuietChunk /\ QuietDedup /\ QuietPrompt /\ QuietPipe /\ QuietSession /\ QuietPosting /\ QuietModel
    /\ pool_up \in BOOLEAN
    /\ store_up \in BOOLEAN
    /\ pool_max \in 1..MaxPool
    /\ in_use = [p \in {"service", "pooled"} |-> 0]
    /\ call = [t \in Threads |-> IdleOp]
    /\ ops = 0
    /\ exhausted = FALSE
    /\ ended = NoEnd

\* what the caller gets when an exception was raised inside the operation:
\* search_similar_chunks_optimized and the DatabaseService handlers return
\* their default, unless the handler's own rollback raised
Handled(kind, rollback_raises) ==
    IF PoolOf(kind) = "service" /\ rollback_raises THEN "raised" ELSE Default(kind)

\* a thread calls an operation and getconn hands out a connection: an idle one
\* of the pool, or a new one
OpCall(t) ==
    /\ call[t] = IdleOp
    /\ ops < MaxOps
    /\ \E kind \in ServiceOps \cup PooledOps :
          /\ PoolOf(kind) = "pooled" => pool_up
          /\ in_use[PoolOf(kind)] < pool_max
          /\ in_use' = [in_use EXCEPT ![PoolOf(kind)] = @ + 1]
          /\ call' = [call EXCEPT ![t] = [kind |-> kind, conn |-> TRUE]]
    /\ ops' = ops + 1
    /\ UNCHANGED <<pool_up, store_up, pool_max, exhausted, ended>>
    /\ UNCHANGED notPool

\* a thread calls an operation and get_connection raises: the pool was never
\* set up (RuntimeError), it is exhausted (PoolError), or a new connection
\* cannot be opened; no connection is held, the handler runs and the
\* operation ends
OpCallRaises(t) ==
    /\ call[t] = IdleOp
    /\ ops < MaxOps
    /\ \E kind \in ServiceOps \cup PooledOps :
          LET p == PoolOf(kind)
              none == p = "pooled" /\ ~pool_up
              full == ~none /\ in_use[p] >= pool_max
          IN /\ none \/ full \/ ~store_up
             /\ exhausted' = (exhausted \/ full)
             /\ ended' = [outcome |-> Handled(kind, FALSE),
                          unreachable |-> ~full,
                          held |-> FALSE]
    /\ ops' = ops + 1
    /\ UNCHANGED <<pool_up, store_up, pool_max, in_use, call>>
    /\ UNCHANGED notPool

\* the statements under the connection run to their return; finally gives
\* the connection back
BodyReturns(t) ==
    /\ call[t].conn
    /\ store_up
    /\ in_use' = IF ReturnsConn(call[t].conn, FALSE)
                 THEN [in_use EXCEPT ![PoolOf(call[t].kind)] = @ - 1]
                 ELSE in_use
    /\ call' = [call EXCEPT ![t] = IdleOp]
    /\ ended' = [outcome |-> "value", unreachable |-> FALSE, held |-> TRUE]
    /\ UNCHANGED <<pool_up, store_up, pool_max, ops, exhausted>>
    /\ UNCHANGED notPool

\* a statement under the connection raises; the handler logs, rolls back
\* where it does (a rollback on a connection whose store is gone raises out
\* of the handler); finally gives the connection back
BodyRaises(t) ==
    /\ call[t].conn
    /\ \E rollback_raises \in BOOLEAN :
          /\ rollback_raises => (call[t].kind \in RollsBack /\ ~store_up)
          /\ ended' = [outcome |-> Handled(call[t].kind, rollback_raises),
                       unreachable |-> ~store_up,
                       held |-> TRUE]
    /\ in_use' = IF ReturnsConn(call[t].conn, TRUE)
                 THEN [in_use EXCEPT ![PoolOf(call[t].kind)] = @ - 1]
                 ELSE in_use
    /\ call' = [call EXCEPT ![t] = IdleOp]
    /\ UNCHANGED <<pool_up, store_up, pool_max, ops, exhausted>>
    /\ UNCHANGED notPool

\* the store stops answering, or answers again
StoreFlips ==
    /\ store_up' = ~store_up
    /\ ops < MaxOps
    /\ UNCHANGED <<pool_up, pool_max, in_use, call, ops, exhausted, ended>>
    /\ UNCHANGED notPool

NextPool ==
    \/ \E t \in Threads : OpCall(t)
    \/ \E t \in Threads : OpCallRaises(t)
    \/ \E t \in Threads : BodyReturns(t)
    \/ \E t \in Threads : BodyRaises(t)
    \/ StoreFlips

SpecPool == InitPool /\ [][NextPool]_vars

\* the threads that hold a connection of pool p
Holders(p) == {t \in Threads : call[t].conn /\ PoolOf(call[t].kind) = p}

C14_UnreachableStoreFailsOutright ==
    ended.unreachable => ended.outcome = "raised"

\* ======================================================================
\* chunk_text (WhereSpace.py), the same code as DocumentService.chunk_text
\* (services/document_service.py): a pure function of the text, chunk_size
\* and overlap.  A text is a sequence of characters; a chunk carries, next
\* to its characters s, the number seed of leading characters it took over
\* from the chunk before it, the separator level of the call that made
\* it, and whether its seed came from a chunk of another level.
\* ======================================================================

MaxTextLen == 6
MaxChunkSize == 3

Chars == {"a", " ", "\n", "."}
Whitespace == {" ", "\n"}

\* CHUNK_SEPARATORS = ["\n\n", "\n", ". ", " ", ""]
CHUNK_SEPARATORS == << <<"\n", "\n">>, <<"\n">>, <<".", " ">>, <<" ">>, <<>> >>

Texts == UNION {[1..m -> Chars] : m \in 0..MaxTextLen}

\* str.strip(): the characters before the first and after the last one that
\* is not whitespace are dropped; Lead is how many are dropped in front
Inked(s) == {n \in 1..Len(s) : s[n] \notin Whitespace}
Lead(s) == (CHOOSE n \in Inked(s) : \A m \in Inked(s) : n <= m) - 1
Strip(s) ==
    IF Inked(s) = {} THEN <<>>
    ELSE SubSeq(s, Lead(s) + 1, CHOOSE n \in Inked(s) : \A m \in Inked(s) : n >= m)

\* str.split(separator) for a separator that is not empty
RECURSIVE Split(_, _)
Split(s, separator) ==
    LET at == {n \in 1..(Len(s) - Len(separator) + 1) :
                  SubSeq(s, n, n + Len(separator) - 1) = separator}
    IN IF at = {} THEN <<s>>
       ELSE LET n == CHOOSE a \in at : \A b \in at : a <= b
            IN <<SubSeq(s, 1, n - 1)>> \o
               Split(SubSeq(s, n + Len(separator), Len(s)), separator)

\* piece = split + (separator if i < len(splits) - 1 else "")
Pieces(s, separator) ==
    LET splits == Split(s, separator)
    IN [n \in 1..Len(splits) |->
           IF n < Len(splits) THEN splits[n] \o separator ELSE splits[n]]

\* prev_chunk[-overlap:] if len(prev_chunk) > overlap else prev_chunk;
\* a slice from -0 is a slice from 0: the whole chunk
OverlapText(prev_chunk, ov) ==
    IF Len(prev_chunk) > ov /\ ov > 0
    THEN SubSeq(prev_chunk, Len(prev_chunk) - ov + 1, Len(prev_chunk))
    ELSE prev_chunk

NoChunk(sep_index) == [s |-> <<>>, seed |-> 0, level |-> sep_index, alien |-> FALSE]
Whole(s, sep_index) == [NoChunk(sep_index) EXCEPT !.s = s]

\* "if current_chunk.strip(): result.append(current_chunk)"
Flush(result, current) ==
    IF Strip(current.s) # <<>> THEN Append(result, current) ELSE result

\* the character-level split of the last resort (lines 463-476)
RECURSIVE CharSplit(_, _, _, _)
CharSplit(s, start, cs, ov) ==
    LET end == Min(start + cs, Len(s))
        chunk == [Whole(SubSeq(s, start + 1, end), Len(CHUNK_SEPARATORS))
                     EXCEPT !.seed = IF start = 0 THEN 0 ELSE ov]
    IN IF start >= Len(s) THEN <<>>
       ELSE Flush(<<>>, chunk) \o
            (IF end >= Len(s) THEN <<>> ELSE CharSplit(s, end - ov, cs, ov))

\* split_recursive, and the loop over the pieces that recombines them; the
\* value is [raised, result]: text.split("") raises ValueError, and the
\* exception leaves every enclosing call
RECURSIVE split_recursive(_, _, _, _), Recombine(_, _, _, _, _, _, _)
split_recursive(s, sep_index, cs, ov) ==
    IF Len(s) <= cs
    THEN [raised |-> FALSE, result |-> Flush(<<>>, Whole(s, sep_index))]
    ELSE IF sep_index >= Len(CHUNK_SEPARATORS)
    THEN [raised |-> FALSE, result |-> CharSplit(s, 0, cs, ov)]
    ELSE IF CHUNK_SEPARATORS[sep_index + 1] = <<>>
    THEN [raised |-> TRUE, result |-> <<>>]
    ELSE Recombine(Pieces(s, CHUNK_SEPARATORS[sep_index + 1]), 1, <<>>,
                   NoChunk(sep_index), sep_index, cs, ov)

Recombine(pieces, n, result, current, sep_index, cs, ov) ==
    IF n > Len(pieces)
    THEN [raised |-> FALSE, result |-> Flush(result, current)]
    ELSE IF Len(current.s) + Len(pieces[n]) <= cs
    THEN Recombine(pieces, n + 1, result,
                   [current EXCEPT !.s = @ \o pieces[n]], sep_index, cs, ov)
    ELSE LET flushed == Flush(result, current)
         IN IF Len(pieces[n]) > cs
            THEN LET sub == split_recursive(pieces[n], sep_index + 1, cs, ov)
                 IN IF sub.raised THEN sub
                    ELSE Recombine(pieces, n + 1, flushed \o sub.result,
                                   NoChunk(sep_index), sep_index, cs, ov)
            ELSE IF flushed # <<>>
            THEN LET prev_chunk == flushed[Len(flushed)]
                     overlap_text == OverlapText(prev_chunk.s, ov)
                 IN Recombine(pieces, n + 1, flushed,
                              [s |-> overlap_text \o pieces[n],
                               seed |-> Len(overlap_text),
                               level |-> sep_index,
                               alien |-> prev_chunk.level # sep_index],
                              sep_index, cs, ov)
            ELSE Recombine(pieces, n + 1, flushed, Whole(pieces[n], sep_index),
                           sep_index, cs, ov)

\* chunks = [c.strip() for c in chunks if c.strip()]; what is left of the
\* seed after the strip
Stripped(c) ==
    [c EXCEPT !.s = Strip(c.s),
              !.seed = IF c.seed <= Lead(c.s) THEN 0
                       ELSE Min(c.seed - Lead(c.s), Len(Strip(c.s)))]

chunk_text(s, cs, ov) ==
    IF Len(s) <= cs
    THEN [state |-> "returned", chunks |-> <<Whole(s, 0)>>]
    ELSE LET r == split_recursive(s, 0, cs, ov)
             kept == SelectSeq(r.result, LAMBDA c : Strip(c.s) # <<>>)
             chunks2 == [n \in 1..Len(kept) |-> Stripped(kept[n])]
         IN IF r.raised THEN [state |-> "raised", chunks |-> <<>>]
            ELSE [state |-> "returned",
                  chunks |-> IF chunks2 # <<>> THEN chunks2
                             ELSE <<Whole(s, 0)>>]

InitChunk ==
    /\ QuietIngest /\ QuietBatch /\ QuietEmbed /\ QuietCache /\ QuietPool /\ QuietDedup /\ QuietPrompt /\ QuietPipe /\ QuietSession /\ QuietPosting /\ QuietModel
    /\ text \in Texts
    /\ chunk_size \in 1..MaxChunkSize
    /\ overlap \in 0..(chunk_size - 1)
    /\ chunked = NotChunked

ChunkText ==
    /\ chunked = NotChunked
    /\ chunked' = chunk_text(text, chunk_size, overlap)
    /\ UNCHANGED <<text, chunk_size, overlap>>
    /\ UNCHANGED notChunk

NextChunk == ChunkText

SpecChunk == InitChunk /\ [][NextChunk]_vars

\* C16: for a text that is not empty, chunk_text returns a list with at
\* least one chunk; it does not raise, also not for a text longer than
\* chunk_size without a separator.
C16_NeverEmptyNeverFails ==
    (chunked.state # "none" /\ text # <<>>) =>
        /\ chunked.state = "returned"
        /\ Len(chunked.chunks) >= 1

\* C17: every returned chunk is at most chunk_size characters long, the
\* chunks that begin with overlap text of the chunk before them included.
C17_ChunkLengthBounded ==
    \A n \in 1..Len(chunked.chunks) : Len(chunked.chunks[n].s) <= chunk_size

\* C18: what a chunk repeats from the end of the chunk before it is at most
\* overlap characters long; with overlap = 0 nothing is repeated.
C18_OverlapBounded ==
    \A n \in 1..Len(chunked.chunks) : chunked.chunks[n].seed <= overlap

\* the characters of a chunk after the overlap it began with, for all chunks
\* in order
RECURSIVE Remainders(_)
Remainders(cs) ==
    IF cs = <<>> THEN <<>>
    ELSE SubSeq(Head(cs).s, Head(cs).seed + 1, Len(Head(cs).s)) \o Remainders(Tail(cs))

\* C19: the returned chunks without their overlap prefixes, concatenated in
\* order, are the text.
C19_ChunksCoverText ==
    chunked.state = "returned" => Remainders(chunked.chunks) = text

\* what the character-level fallback is to return: the windows of
\* chunk_size characters that begin at 0, chunk_size - overlap,
\* 2 * (chunk_size - overlap), ... up to the one that reaches the end
Windows ==
    LET step == chunk_size - overlap
        last_one == CHOOSE w \in 1..Len(text) :
                       /\ (w - 1) * step + chunk_size >= Len(text)
                       /\ \A v \in 1..(w - 1) : (v - 1) * step + chunk_size < Len(text)
    IN [w \in 1..last_one |->
           SubSeq(text, (w - 1) * step + 1, Min((w - 1) * step + chunk_size, Len(text)))]

\* C27: a text longer than chunk_size that contains no paragraph break, line
\* break, ". " or space is cut by the character-level fallback into the
\* windows text[s : s + chunk_size], s = 0, chunk_size - overlap, ...
C27_CharacterFallbackWindows ==
    (chunked.state # "none" /\ Len(text) > chunk_size
        /\ \A n \in 1..Len(text) : text[n] \notin Whitespace) =>
       /\ chunked.state = "returned"
       /\ [n \in 1..Len(chunked.chunks) |-> chunked.chunks[n].s] = Windows

\* C28: the overlap text a chunk begins with is the tail of a chunk flushed
\* by the same call of split_recursive, never of a chunk that a call for a
\* deeper separator level produced.
C28_OverlapFromSameLevel ==
    \A n \in 1..Len(chunked.chunks) : ~chunked.chunks[n].alien

\* ======================================================================
\* deduplicate_chunks (optimized_rag_query.py): a pure function of the
\* list of candidate chunks.  A chunk is its file_name and its content; the
\* MD5 digests of two contents are equal exactly when the contents are.
\* ======================================================================

MaxCandidates == 4
MaxContents == 3

Files == {"A", "B"}
Candidates == [file_name : Files, content : 1..MaxContents]

\* the lists of ten chunks, eight of file A and two of file B, every chunk
\* with a content of its own
EightAndTwo ==
    {[n \in 1..10 |-> [file_name |-> IF n \in {b[1], b[2]} THEN "B" ELSE "A",
                       content |-> n]] :
        b \in {c \in (1..10) \X (1..10) : c[1] < c[2]}}

FilesOf(cands) == {cands[n].file_name : n \in 1..Len(cands)}

\* the first loop: a chunk is kept when no chunk before it has its content
RECURSIVE UniqueChunks(_, _, _)
UniqueChunks(cands, seen_hashes, unique_chunks) ==
    IF cands = <<>> THEN unique_chunks
    ELSE IF Head(cands).content \notin seen_hashes
    THEN UniqueChunks(Tail(cands), seen_hashes \cup {Head(cands).content},
                      Append(unique_chunks, Head(cands)))
    ELSE UniqueChunks(Tail(cands), seen_hashes, unique_chunks)

\* faulty variant: a chunk is admitted only while less than half is filled
AdmitsUnderHalf(file_name, seen_files, filled, capacity) == 2 * filled < capacity

\* "if file_name not in seen_files ... elif len(diverse_chunks) <
\* len(unique_chunks) * 0.5": the chunk is appended
Admits(file_name, seen_files, filled, capacity) ==
    file_name \notin seen_files \/ 2 * filled < capacity

\* the second loop over unique_chunks
RECURSIVE DiverseChunks(_, _, _, _)
DiverseChunks(rest, seen_files, diverse_chunks, capacity) ==
    IF rest = <<>> THEN diverse_chunks
    ELSE DiverseChunks(
            Tail(rest),
            IF Head(rest).file_name \notin seen_files
            THEN seen_files \cup {Head(rest).file_name} ELSE seen_files,
            IF Admits(Head(rest).file_name, seen_files, Len(diverse_chunks), capacity)
            THEN Append(diverse_chunks, Head(rest)) ELSE diverse_chunks,
            capacity)

deduplicate_chunks(cands) ==
    IF Len(cands) <= 1 THEN cands
    ELSE LET unique_chunks == UniqueChunks(cands, {}, <<>>)
         IN DiverseChunks(unique_chunks, {}, <<>>, Len(unique_chunks))

InitDedup ==
    /\ QuietIngest /\ QuietBatch /\ QuietEmbed /\ QuietCache /\ QuietPool /\ QuietChunk /\ QuietPrompt /\ QuietPipe /\ QuietSession /\ QuietPosting /\ QuietModel
    /\ candidates \in
          UNION {[1..m -> Candidates] : m \in 0..MaxCandidates} \cup EightAndTwo
    /\ deduped = NotDeduped

Deduplicate ==
    /\ deduped = NotDeduped
    /\ deduped' = [state |-> "returned", chunks |-> deduplicate_chunks(candidates)]
    /\ UNCHANGED candidates
    /\ UNCHANGED notDedup

NextDedup == Deduplicate

SpecDedup == InitDedup /\ [][NextDedup]_vars

\* the files with a candidate whose content no earlier candidate has
FilesWithOwnContent ==
    {candidates[n].file_name : n \in
        {m \in 1..Len(candidates) :
            \A e \in 1..(m - 1) : candidates[e].content # candidates[m].content}}

\* C20: every source file that has a candidate chunk has a chunk in the
\* output.
C20_EveryFileContributes ==
    deduped.state = "returned" => FilesOf(candidates) \subseteq FilesOf(deduped.chunks)

\* C20 as the code has it: every source file that has a candidate chunk whose
\* content is not the content of an earlier candidate has a chunk in the
\* output, and every chunk of the output is a candidate.
C20_EveryFileWithOwnContentContributes ==
    deduped.state = "returned" =>
        /\ FilesWithOwnContent \subseteq FilesOf(deduped.chunks)
        /\ \A n \in 1..Len(deduped.chunks) :
              \E m \in 1..Len(candidates) : candidates[m] = deduped.chunks[n]

\* C20 witness: of ten candidates the first eight were of file A and the last
\* two of file B; chunks of A were dropped and a chunk of B is in the output.
C20_Witness ==
    /\ deduped.state = "returned"
    /\ Len(candidates) = 10
    /\ \A n \in 1..10 : candidates[n].file_name = (IF n <= 8 THEN "A" ELSE "B")
    /\ Len(deduped.chunks) < 10
    /\ "B" \in FilesOf(deduped.chunks)

\* ======================================================================
\* optimize_prompt (optimized_rag_query.py): a pure function of the ranked
\* chunks and max_tokens.  A chunk is the length of its content and the
\* length of its preview; what is selected is the position of the chunk
\* and the length of the text that goes into the prompt for it.
\* ======================================================================

MaxRanked == 3

ContentLens == {3, 40, 200}
PreviewLens == {0, 100, 150}
Budgets == {0, 10, 30, 60}

\* len(text) // 4
estimate_tokens(len) == len \div 4

\* summary = chunk['preview'][:100] + "..."
SummaryLen(preview) == Min(preview, 100) + 3

\* faulty variant: a chunk that does not fit is left out and the loop goes on
Continue(list, n) == n + 1

\* break: no later chunk is looked at
Break(list, n) == Len(list) + 1

\* the loop over enumerate(chunks)
RECURSIVE SelectChunks(_, _, _, _, _)
SelectChunks(list, n, budget, selected_chunks, current_tokens) ==
    IF n > Len(list) THEN selected_chunks
    ELSE LET chunk_tokens == estimate_tokens(list[n].content)
             summary_tokens == estimate_tokens(SummaryLen(list[n].preview))
         IN IF current_tokens + chunk_tokens <= budget
            THEN SelectChunks(list, n + 1, budget,
                    Append(selected_chunks,
                           [idx |-> n, content |-> list[n].content, summary |-> FALSE]),
                    current_tokens + chunk_tokens)
            ELSE IF current_tokens + summary_tokens <= budget
            THEN SelectChunks(list, n + 1, budget,
                    Append(selected_chunks,
                           [idx |-> n, content |-> SummaryLen(list[n].preview),
                            summary |-> TRUE]),
                    current_tokens + summary_tokens)
            ELSE SelectChunks(list, Break(list, n), budget, selected_chunks,
                              current_tokens)

InitPrompt ==
    /\ QuietIngest /\ QuietBatch /\ QuietEmbed /\ QuietCache /\ QuietChunk /\ QuietDedup /\ QuietPool /\ QuietPipe /\ QuietSession /\ QuietPosting /\ QuietModel
    /\ ranked \in UNION {[1..m -> [content : ContentLens, preview : PreviewLens]] :
                            m \in 0..MaxRanked}
    /\ max_tokens \in Budgets
    /\ prompt = [state |-> "none", selected |-> <<>>]

OptimizePrompt ==
    /\ prompt.state = "none"
    /\ prompt' = [state |-> "returned",
                  selected |-> SelectChunks(ranked, 1, max_tokens, <<>>, 0)]
    /\ UNCHANGED <<ranked, max_tokens>>
    /\ UNCHANGED notPrompt

NextPrompt == OptimizePrompt

SpecPrompt == InitPrompt /\ [][NextPrompt]_vars

RECURSIVE TokensOf(_)
TokensOf(sel) ==
    IF sel = <<>> THEN 0 ELSE estimate_tokens(Head(sel).content) + TokensOf(Tail(sel))

\* C21: the chunks in the prompt are a prefix of the ranked list (once a
\* chunk is left out every later one is left out); each contributes its full
\* content or its short preview; and the token estimates of what was put in
\* sum to at most max_tokens.
C21_BudgetSelectsPrefix ==
    prompt.state = "returned" =>
        /\ Len(prompt.selected) <= Len(ranked)
        /\ \A n \in 1..Len(prompt.selected) :
              /\ prompt.selected[n].idx = n
              /\ prompt.selected[n].content \in
                    {ranked[n].content, SummaryLen(ranked[n].preview)}
        /\ TokensOf(prompt.selected) <= max_tokens

\* C21 witness: the first chunk went in whole, the second as its preview, the
\* third did not fit either way and was left out although its content alone
\* would have fitted an empty budget.
C21_Witness ==
    /\ prompt.state = "returned"
    /\ Len(ranked) = 3
    /\ Len(prompt.selected) = 2
    /\ ~prompt.selected[1].summary
    /\ prompt.selected[2].summary
    /\ prompt.selected[2].content < ranked[2].content
    /\ estimate_tokens(ranked[3].content) <= max_tokens

\* ======================================================================
\* retrieve_and_rank (optimized_rag_query.py) and the prompt built from what
\* it returns.  Python lists and dicts are objects: the list that
\* search_similar_chunks_optimized builds is the object query_cache.set
\* stores, the object a later get returns and the object rerank_chunks
\* sorts; the dicts in it are the objects deduplicate_chunks passes on and
\* optimize_prompt writes to.  objs is what the dicts hold now, cached_list
\* the order of the cached list now.
\* ======================================================================

MaxRows == 3
MaxLookups == 2

\* one row of the store: similarity in tenths
Rows == [file_name : Files, content : {40, 200}, preview : {100}, similarity : {5, 9}]

\* ORDER BY embedding <=> query
Tables ==
    {t \in UNION {[1..m -> Rows] : m \in 1..MaxRows} :
        \A n \in 1..(Len(t) - 1) : t[n].similarity >= t[n + 1].similarity}

\* the dict built from a row: 'relevance' is not a key yet (-1); hash stands
\* for the text of content
DictOf(t, n) ==
    [file_name |-> t[n].file_name, content |-> t[n].content, preview |-> t[n].preview,
     similarity |-> t[n].similarity, relevance |-> -1, hash |-> n]

\* 0.7 * similarity + 0.3 * coverage, in hundredths; coverage in halves
Relevance(d, coverage) == 7 * d.similarity + 15 * coverage

\* chunks.sort(key = relevance, reverse = True): stable
RECURSIVE SortByRelevance(_, _, _)
SortByRelevance(list, sorted, d) ==
    IF list = <<>> THEN sorted
    ELSE LET x == Head(list)
             ahead == SelectSeq(sorted, LAMBDA y : d[y].relevance >= d[x].relevance)
             behind == SelectSeq(sorted, LAMBDA y : d[y].relevance < d[x].relevance)
         IN SortByRelevance(Tail(list), ahead \o <<x>> \o behind, d)

\* rerank_chunks: every dict gets its relevance, the list is sorted in place
RerankInPlace(d, list, coverage) ==
    LET scored == [n \in 1..Len(d) |->
                      IF \E x \in 1..Len(list) : list[x] = n
                      THEN [d[n] EXCEPT !.relevance = Relevance(d[n], coverage[n])]
                      ELSE d[n]]
    IN [dicts |-> scored, list |-> SortByRelevance(list, <<>>, scored)]

\* deduplicate_chunks on the dicts of a list: the row numbers it keeps
Deduplicated(d, list) ==
    LET kept == deduplicate_chunks(
                   [n \in 1..Len(list) |->
                       [file_name |-> d[list[n]].file_name, content |-> d[list[n]].hash,
                        row |-> list[n]]])
    IN [n \in 1..Len(kept) |-> kept[n].row]

InitPipe ==
    /\ QuietIngest /\ QuietBatch /\ QuietEmbed /\ QuietCache /\ QuietChunk /\ QuietDedup /\ QuietPrompt /\ QuietPool /\ QuietSession /\ QuietPosting /\ QuietModel
    /\ table \in Tables
    /\ ctx_tokens \in {10, 60}
    /\ objs = <<>> /\ cached_list = <<>> /\ stored_as = NoList
    /\ unique_list = <<>> /\ got = NoList
    /\ lookups = 0 /\ ppc = "idle"

\* the rest of retrieve_and_rank after the search: rerank, deduplicate
RankAndDeduplicate(d, list) ==
    \E coverage \in [1..Len(d) -> {0, 2}] :
        LET r == RerankInPlace(d, list, coverage)
        IN /\ objs' = r.dicts
           /\ cached_list' = r.list
           /\ unique_list' = Deduplicated(r.dicts, r.list)

\* retrieve_and_rank, the cache has no entry for the key: the store is
\* queried, the result list is stored in the cache and handed on
RetrieveMiss ==
    /\ ppc = "idle" /\ lookups < MaxLookups
    /\ cached_list = <<>>
    /\ LET d == [n \in 1..Len(table) |-> DictOf(table, n)]
           list == [n \in 1..Len(table) |-> n]
       IN /\ stored_as' = [state |-> "set", list |-> list, dicts |-> d]
          /\ RankAndDeduplicate(d, list)
    /\ lookups' = lookups + 1
    /\ ppc' = "ranked"
    /\ UNCHANGED <<table, ctx_tokens, got>>
    /\ UNCHANGED notPipe

\* retrieve_and_rank, the cache has the entry: get returns entry['results']
RetrieveHit ==
    /\ ppc = "idle" /\ lookups < MaxLookups
    /\ cached_list # <<>>
    /\ got' = [state |-> "hit", list |-> cached_list, dicts |-> objs]
    /\ RankAndDeduplicate(objs, cached_list)
    /\ lookups' = lookups + 1
    /\ ppc' = "ranked"
    /\ UNCHANGED <<table, ctx_tokens, stored_as>>
    /\ UNCHANGED notPipe

\* optimize_prompt(query, unique, max_tokens): "chunk['content'] = summary"
\* writes to the dict of every chunk that goes in as its preview
BuildPrompt ==
    /\ ppc = "ranked"
    /\ LET sel == SelectChunks([n \in 1..Len(unique_list) |-> objs[unique_list[n]]],
                               1, ctx_tokens, <<>>, 0)
           summarized == {unique_list[sel[n].idx] : n \in {x \in 1..Len(sel) : sel[x].summary}}
       IN objs' = [n \in 1..Len(objs) |->
                      IF n \in summarized
                      THEN [objs[n] EXCEPT !.content = SummaryLen(objs[n].preview),
                                           !.hash = n + Len(objs)]
                      ELSE objs[n]]
    /\ ppc' = "idle"
    /\ UNCHANGED <<table, ctx_tokens, cached_list, stored_as, unique_list, got, lookups>>
    /\ UNCHANGED notPipe

\* the caller uses the chunks without building a prompt
UseChunks ==
    /\ ppc = "ranked"
    /\ ppc' = "idle"
    /\ UNCHANGED <<table, ctx_tokens, objs, cached_list, stored_as, unique_list, got,
                   lookups>>
    /\ UNCHANGED notPipe

NextPipe == RetrieveMiss \/ RetrieveHit \/ BuildPrompt \/ UseChunks

SpecPipe == InitPipe /\ [][NextPipe]_vars

\* C29: a cache hit returns the result list as set stored it: the same
\* chunks in the same order, each with the content and the fields it had.
C29_HitReturnsWhatWasStored ==
    got.state = "hit" => (got.list = stored_as.list /\ got.dicts = stored_as.dicts)

\* ======================================================================
\* get_session (batch_embeddings.py): the worker threads of the
\* ThreadPoolExecutor call it from _generate_single; it holds no lock, so
\* another thread can run between the test of _session and the assignment.
\* ======================================================================

MaxGets == 5

InitSession ==
    /\ QuietIngest /\ QuietBatch /\ QuietEmbed /\ QuietCache /\ QuietChunk /\ QuietDedup /\ QuietPrompt /\ QuietPipe /\ QuietPool /\ QuietPosting /\ QuietModel
    /\ session = 0 /\ created = 0
    /\ caller = [t \in Threads |-> "idle"]
    /\ handed = <<>> /\ gets = 0

\* session = get_session(): "if _session is None"
SessionTest(t) ==
    /\ caller[t] = "idle"
    /\ gets < MaxGets
    /\ gets' = gets + 1
    /\ caller' = [caller EXCEPT ![t] = IF session = 0 THEN "create" ELSE "return"]
    /\ UNCHANGED <<session, created, handed>>
    /\ UNCHANGED notSession

\* _session = requests.Session()
SessionCreate(t) ==
    /\ caller[t] = "create"
    /\ created' = created + 1
    /\ session' = created + 1
    /\ caller' = [caller EXCEPT ![t] = "mount"]
    /\ UNCHANGED <<handed, gets>>
    /\ UNCHANGED notSession

\* the adapter is mounted on whatever _session is now
SessionMount(t) ==
    /\ caller[t] = "mount"
    /\ caller' = [caller EXCEPT ![t] = "return"]
    /\ UNCHANGED <<session, created, handed, gets>>
    /\ UNCHANGED notSession

\* return _session
SessionReturn(t) ==
    /\ caller[t] = "return"
    /\ handed' = Append(handed, session)
    /\ caller' = [caller EXCEPT ![t] = "idle"]
    /\ UNCHANGED <<session, created, gets>>
    /\ UNCHANGED notSession

NextSession ==
    \/ \E t \in Threads : SessionTest(t)
    \/ \E t \in Threads : SessionCreate(t)
    \/ \E t \in Threads : SessionMount(t)
    \/ \E t \in Threads : SessionReturn(t)

SpecSession == InitSession /\ [][NextSession]_vars

\* C24: however the threads interleave, at most one Session object is ever
\* created and every call of get_session returns that object.
C24_OneSessionOnly ==
    /\ created <= 1
    /\ \A m, n \in 1..Len(handed) : handed[m] = handed[n]

\* ======================================================================
\* generate_embeddings with the requests of _generate_single spelled out
\* (batch_embeddings.py): every text of a running batch goes through the
\* loop "for attempt in range(max_retries)", one request per pass.
\* ======================================================================

\* What one session.post of _generate_single can come to (lines 129-171).
RequestOutcomes == {"embedding", "no_embedding", "timeout", "connection_error", "error"}

\* Lines 141, 154, 161, 168: if attempt < max_retries - 1 ... continue
MayRetry(a) == a < max_retries - 1

\* A faulty variant, to test C25's formula: the pass is repeated with the
\* same attempt number.
SameAttempt(a) == a
\* Line 121: for attempt in range(max_retries)
NextAttempt(a) == a + 1

\* the position of the text a running batch has in hand
InHand(b) == BatchFirst(b) + Len(future[b].embeddings)

InitPosting ==
    /\ QuietIngest /\ QuietEmbed /\ QuietCache /\ QuietPool /\ QuietChunk /\ QuietDedup /\ QuietPrompt /\ QuietPipe /\ QuietSession /\ QuietModel
    /\ \E m \in 0..MaxTexts : texts = [n \in 1..m |-> ChunkId(1, n)]
    /\ nonstr \in SUBSET (1..Len(texts))
    /\ batch_size \in 1..MaxBatchSize
    /\ max_workers \in 1..MaxWorkers
    /\ gpc = "idle"
    /\ future = <<>>
    /\ results = <<>>
    /\ completed = 0
    /\ collected = <<>>
    /\ gen_stats = [successful |-> 0, failed |-> 0]
    /\ attempt_of = [b \in BatchIds |-> 0]
    /\ posted = [n \in 1..Len(texts) |-> 0]

\* Line 119: text[:8000] raises for a text that is no string, before any
\* request; the exception leaves _generate_batch and ends the batch.
TextRaises(b) ==
    /\ gpc = "collect"
    /\ b \in Running
    /\ Len(future[b].embeddings) < Len(Batch(b))
    /\ InHand(b) \in nonstr
    /\ future' = [future EXCEPT ![b].state = "raised"]
    /\ UNCHANGED <<texts, nonstr, batch_size, max_workers, gpc, results,
                   completed, collected, gen_stats>>
    /\ UNCHANGED postingVars
    /\ UNCHANGED notBatchPosting

\* Lines 121-171: one pass of the retry loop: the request is posted and
\* returns or times out; an embedding ends the call, anything else is
\* retried while attempt < max_retries - 1 and gives None after that.
\* _generate_batch appends what the call returned (line 194).
PostRequest(b) ==
    /\ gpc = "collect"
    /\ b \in Running
    /\ Len(future[b].embeddings) < Len(Batch(b))
    /\ InHand(b) \notin nonstr
    /\ posted' = [posted EXCEPT ![InHand(b)] = Min(@ + 1, max_retries + 1)]
    /\ \E kind \in RequestOutcomes :
          IF kind = "embedding"
          THEN /\ future' = [future EXCEPT
                               ![b].embeddings = Append(@, VecFor(texts[InHand(b)]))]
               /\ attempt_of' = [attempt_of EXCEPT ![b] = 0]
          ELSE IF MayRetry(attempt_of[b])
          THEN /\ attempt_of' = [attempt_of EXCEPT ![b] = NextAttempt(@)]
               /\ UNCHANGED future
          ELSE /\ future' = [future EXCEPT ![b].embeddings = Append(@, None)]
               /\ attempt_of' = [attempt_of EXCEPT ![b] = 0]
    /\ UNCHANGED <<texts, nonstr, batch_size, max_workers, gpc, results,
                   completed, collected, gen_stats>>
    /\ UNCHANGED notBatchPosting

NextPosting ==
    \/ GenerateEmbeddings
    \/ \E b \in DOMAIN future :
          \/ WorkerStart(b) \/ TextRaises(b) \/ PostRequest(b) \/ BatchReturn(b)
          \/ CollectResult(b) \/ CollectException(b)
    \/ ReturnResults

\* Some thread of the process always gets to run its next step, and every
\* request returns or times out (timeout=self.timeout, line 132).
SpecPosting ==
    /\ InitPosting /\ [][NextPosting]_vars
    /\ WF_vars(NextPosting)

\* the future of batch b is done
Ended(b) == b \in DOMAIN future /\ future[b].state \in {"finished", "raised"}

MaxSwitches == 3

\* the model ids a client asks for ("" : none given)
ModelIds == {"", "llama3.1", "mistral", "mistral:latest"}
\* the names /api/tags of Ollama can list
TagNames == {"llama3.1:latest", "mistral:latest", "mistral"}
\* what can be found in the config file
FileStates == {"missing", "corrupt"} \cup (ModelIds \ {""})

\* what open(..., 'w') and json.dump of save_model_config can come to
WriteOutcomes == {"written", "open_failed", "dump_failed"}
\* what the requests of set_model to Ollama can come to
OllamaOutcomes ==
    {"tags_error", "test_passed", "test_failed", "test_timeout", "unreachable"}

\* model_name.replace(':latest', '')
Cleaned(name) ==
    CASE name = "llama3.1:latest" -> "llama3.1"
      [] name = "mistral:latest" -> "mistral"
      [] OTHER -> name

\* f"{model_id}:latest"
WithLatest(name) ==
    CASE name = "llama3.1" -> "llama3.1:latest"
      [] name = "mistral" -> "mistral:latest"
      [] OTHER -> "other"

\* load_model_config: the current_model of the file; "llama3.1" when the
\* file is missing or cannot be read.
load_model_config(file) ==
    IF file \in {"missing", "corrupt"} THEN "llama3.1" ELSE file

\* save_model_config: the file is opened for writing and the config dumped;
\* every exception is logged and swallowed.
save_model_config(file, model_id, outcome) ==
    CASE outcome = "written" -> model_id
      [] outcome = "open_failed" -> file
      [] outcome = "dump_failed" -> "corrupt"

\* set_model: available_model_names holds every listed name and its
\* cleaned form.
AvailableNames(tags) == tags \cup {Cleaned(t) : t \in tags}

ModelFound(model_id, tags) ==
    \/ model_id \in AvailableNames(tags)
    \/ WithLatest(model_id) \in AvailableNames(tags)
    \/ Cleaned(model_id) \in {Cleaned(n) : n \in AvailableNames(tags)}

ActualModelName(model_id, tags) ==
    IF model_id \in AvailableNames(tags) THEN model_id
    ELSE IF WithLatest(model_id) \in AvailableNames(tags) THEN model_id
    ELSE Cleaned(model_id)

InitModel ==
    /\ QuietIngest /\ QuietBatch /\ QuietEmbed /\ QuietCache /\ QuietChunk /\ QuietDedup /\ QuietPrompt /\ QuietPipe /\ QuietSession /\ QuietPosting /\ QuietPool
    /\ config_file \in FileStates
    /\ current_model = load_model_config(config_file)
    /\ answer = [by |-> "none", success |-> FALSE, model |-> "none"]
    /\ last_success = "none"
    /\ switches = 0

\* set_current_model(model_id): the global is set, the file is written if it
\* can be, and the function returns.
SetCurrentModel(model_id, outcome) ==
    /\ switches < MaxSwitches
    /\ switches' = switches + 1
    /\ current_model' = model_id
    /\ config_file' = save_model_config(config_file, model_id, outcome)
    /\ answer' = [by |-> "set_current_model", success |-> TRUE, model |-> model_id]
    /\ last_success' = model_id
    /\ UNCHANGED notModel

\* The answer of set_model after a passed test: success if the global, the
\* file and a reload all give the model.
Verified(model, file) ==
    /\ file \notin {"missing", "corrupt"}
    /\ file = model
    /\ load_model_config(file) = model

\* POST /api/set_model
SetModel(model_id, tags, ollama, outcome) ==
    /\ switches < MaxSwitches
    /\ switches' = switches + 1
    /\ LET actual == ActualModelName(model_id, tags)
           saved == save_model_config(config_file, actual, outcome)
           refused == [by |-> "set_model", success |-> FALSE, model |-> "none"]
       IN IF model_id = ""
          THEN \* 400: no model specified
               /\ answer' = refused
               /\ UNCHANGED <<current_model, config_file, last_success>>
          ELSE IF ollama = "unreachable"
          THEN \* ConnectionError: the switch is made all the same
               /\ current_model' = model_id
               /\ config_file' = save_model_config(config_file, model_id, outcome)
               /\ answer' = [by |-> "set_model", success |-> TRUE, model |-> model_id]
               /\ last_success' = model_id
          ELSE IF \/ ollama = "tags_error"
                  \/ ~ModelFound(model_id, tags)
                  \/ ollama = "test_failed"
          THEN \* 500: /api/tags gave an error; 404: not found in Ollama;
               \* 400: the model cannot be loaded
               /\ answer' = refused
               /\ UNCHANGED <<current_model, config_file, last_success>>
          ELSE IF ollama = "test_timeout"
          THEN \* the test request timed out: success is answered at once
               /\ answer' = [by |-> "set_model", success |-> TRUE, model |-> actual]
               /\ last_success' = actual
               /\ UNCHANGED <<current_model, config_file>>
          ELSE \* the test passed: switch, then verify
               /\ current_model' = actual
               /\ config_file' = saved
               /\ IF Verified(actual, saved)
                  THEN /\ answer' = [by |-> "set_model", success |-> TRUE, model |-> actual]
                       /\ last_success' = actual
                  ELSE /\ answer' = [by |-> "set_model", success |-> FALSE, model |-> actual]
                       /\ UNCHANGED last_success
    /\ UNCHANGED notModel

NextModel ==
    \/ \E model_id \in ModelIds \ {""}, outcome \in WriteOutcomes :
          SetCurrentModel(model_id, outcome)
    \/ \E model_id \in ModelIds, tags \in SUBSET TagNames,
          ollama \in OllamaOutcomes, outcome \in WriteOutcomes :
          SetModel(model_id, tags, ollama, outcome)

SpecModel == InitModel /\ [][NextModel]_vars

\* C23: after a switch that reported success for m, get_current_model() is m
\* and the model read back from the config file is m; after any sequence of
\* switches both are the model of the latest switch that reported success.
C23_SwitchIsPersisted ==
    last_success # "none" =>
        /\ current_model = last_success
        /\ load_model_config(config_file) = last_success

====
